---------------------------- MODULE Spec2Model ----------------------------
(***************************************************************************)
(* A model of pg_backup (hra42/pg_backup): the backup pipeline, the        *)
(* retention manager, the restore tool step with its version-mismatch      *)
(* recovery, and the job scheduler.                                        *)
(*                                                                         *)
(* Strings the code inspects (object keys, error texts) are sequences of   *)
(* one-character strings, so that the prefix, suffix and substring tests   *)
(* of the code are computed and not assumed.                               *)
(***************************************************************************)
EXTENDS Integers, Sequences, FiniteSets, TLC

VARIABLES
    \* ---- blob store and retention (internal/storage/s3.go)
    store,          \* the bucket listing: a sequence of [key, lastModified]
    s3Prefix,       \* config.S3.Prefix
    retentionCount, \* config.Backup.RetentionCount handed to CleanupOldBackups
    retListing,     \* the listing the last CleanupOldBackups call read
    delRequests,    \* the DeleteObjects requests issued: a sequence of key sequences
    retResult,      \* what the last CleanupOldBackups call returned
    retErrCount     \* the count in "cleanup completed with %d errors"

retVars == << store, s3Prefix, retentionCount, retListing, delRequests, retResult,
             retErrCount >>

VARIABLES
    \* ---- the CLI backup entry point and BackupManager.Run (main.go, backup.go)
    pc,             \* where main / Run stands
    dryRun,         \* the -dry-run flag
    now,            \* the clock
    fileStamp,      \* the time stamp in backupFileName
    sshOpen,        \* sshClient.client # nil
    remoteFile,     \* the remote temporary dump: "absent", "partial" (what a
                    \* failed dump left), "empty" (zero bytes), "present"
    remoteCmds,     \* the commands Run executed on the remote host about the
                    \* dump file, each with its result
    localFile,      \* the local temporary dump: "absent", "partial", "present"
    localRemovals,  \* how often os.Remove(localBackupPath) was called
    backupSize,     \* bm.backupSize
    localSize,      \* the size of the local dump as transferred, 0 before that
    stageLog,       \* the stages started so far, each with its result
    notifications,  \* the notifications attempted
    notifier,       \* config.Notification.Enabled, and what became of each
                    \* notification: "skipped", "sent" or "failed"
    runErr,         \* what Run returned (NoError for nil)
    cleanupErr,     \* what performCleanup returned, and whether its os.Remove failed
    exitCode,       \* the code handed to os.Exit, NoExit before that
    validationLog,  \* the calls validateConfiguration made, each with its result
    cancelled,      \* the context handed to Run is cancelled
    stagesAtCancel, \* how many stages had been started when it was cancelled
    sshCalls        \* how often a session was opened and an open session closed

backupVars == << pc, dryRun, now, fileStamp, sshOpen, remoteFile, localFile,
                 localRemovals, backupSize, localSize, stageLog, notifications, runErr,
                 cleanupErr, exitCode, validationLog, cancelled, stagesAtCancel,
                 sshCalls, remoteCmds, notifier >>

VARIABLES
    \* ---- the scheduler (Scheduler.Start, scheduleJob, gocron singleton jobs)
    schedPc,        \* where Start stands
    jobCfg,         \* per job, its schedule configuration
    jobs,           \* s.jobs: the names registered with gocron
    gocronRunning,  \* per job, whether a run started by gocron is in flight
    onStart,        \* per job, the run-on-start goroutine
    ticks,          \* the triggers fired so far
    lastTrigger,    \* what the latest trigger met and did
    lastRun,        \* whether the run started by gocron that returned last
                    \* returned an error
    sshClients      \* per job, the SSH client of its manager: which run dialed
                    \* the connection it holds, and the connections still open

schedVars == << schedPc, jobCfg, jobs, gocronRunning, onStart, ticks, lastTrigger,
                lastRun, sshClients >>

VARIABLES
    \* ---- RestoreManager.Run and performRestore
    rpc,            \* where Run / performRestore stands
    rrun,           \* the session of the restore run and the stage Run failed in
    rcfg,           \* the restore configuration and the mode
    calls,          \* how often each kind of command was executed
    firstRestore,   \* what the first pg_restore invocation reported
    vmInstall,      \* the version-mismatch installation: "none", "failed", "ok"
    restoreErr      \* the error performRestore returned, "" for nil

restoreVars == << rpc, rrun, rcfg, calls, firstRestore, vmInstall, restoreErr >>

vars == << retVars, backupVars, schedVars, restoreVars >>

----------------------------------------------------------------------------
\* Bounds of the model.

\* Longest bucket listing drawn in the retention specification.
MaxObjects ==
    3

\* Last-modified times and the clock range over 1..MaxTime.
MaxTime ==
    3

\* Retention counts range over 0..MaxRetention.
MaxRetention ==
    3

\* The triggers gocron fires in one behaviour.
MaxTicks ==
    2

\* The number of backups the store holds before the run of the end-to-end
\* scenario.
MaxEarlier ==
    5

\* The days of monthly expressions range over -1..MaxDay.
MaxDay ==
    33

----------------------------------------------------------------------------
\* Go string functions, on sequences of one-character strings.

\* strings.HasPrefix
HasPrefix(s, p) ==
    Len(s) >= Len(p) /\ SubSeq(s, 1, Len(p)) = p

\* strings.HasSuffix
HasSuffix(s, p) ==
    Len(s) >= Len(p) /\ SubSeq(s, Len(s) - Len(p) + 1, Len(s)) = p

\* Index of the last "/" of s, 0 when there is none.
LastSlash(s) ==
    LET at == { i \in 1..Len(s) : s[i] = "/" }
    IN  IF at = {} THEN 0 ELSE CHOOSE i \in at : \A j \in at : j <= i

\* s without its trailing "/" characters.
RECURSIVE StripTrailingSlashes(_)
StripTrailingSlashes(s) ==
    IF Len(s) > 0 /\ s[Len(s)] = "/"
    THEN StripTrailingSlashes(SubSeq(s, 1, Len(s) - 1))
    ELSE s

\* filepath.Base: the last element of the path; "." for the empty path and "/"
\* for a path of slashes only.
Base(s) ==
    IF s = << >> THEN << "." >>
    ELSE LET t == StripTrailingSlashes(s)
         IN  IF t = << >> THEN << "/" >>
             ELSE SubSeq(t, LastSlash(t) + 1, Len(t))

\* One decimal digit as a character.
Digit(n) ==
    CASE n = 0 -> "0" [] n = 1 -> "1" [] n = 2 -> "2" [] n = 3 -> "3"
      [] n = 4 -> "4" [] n = 5 -> "5" [] n = 6 -> "6" [] n = 7 -> "7"
      [] n = 8 -> "8" [] OTHER -> "9"

\* time.Format with a layout "<date><sep><clock>": the clock value t is
\* written as its tens digit (the date part), the separator of the layout and
\* its units digit (the time-of-day part).
FormatTime(t, sep) ==
    << Digit((t \div 10) % 10), sep, Digit(t % 10) >>

----------------------------------------------------------------------------
\* Object keys.

\* "backup-"
BackupDash ==
    << "b", "a", "c", "k", "u", "p", "-" >>

\* "backup_"
BackupUnderscore ==
    << "b", "a", "c", "k", "u", "p", "_" >>

\* ".dump"
DumpSuffix ==
    << ".", "d", "u", "m", "p" >>

\* The configured key prefix s3.prefix, "pg" (no trailing slash).
ConfigPrefix ==
    << "p", "g" >>

\* The key prefixes a configuration may have: none, "pg", "pg/" and the
\* nested "a/b".
Prefixes ==
    { << >>, ConfigPrefix, ConfigPrefix \o << "/" >>, << "a", "/", "b" >> }

\* An object under the prefix that is no backup: "pg/notes.txt".
ForeignKey ==
    << "p", "g", "/", "n", "o", "t", "e", "s", ".", "t", "x", "t" >>

\* The prefix with its trailing "/" added when it is non-empty and has none.
NormalizedPrefix(prefix) ==
    IF prefix # << >> /\ ~HasSuffix(prefix, << "/" >>)
    THEN prefix \o << "/" >>
    ELSE prefix

\* backupFileName of BackupManager.Run: "backup_<yyyymmdd_hhmmss>.dump".
BackupFileName(t) ==
    BackupUnderscore \o FormatTime(t, "_") \o DumpSuffix

GenerateBackupKeyMutant(prefix, t, filename) ==
    prefix \o BackupDash \o FormatTime(t, "-") \o << "-" >> \o filename

\* S3Client.generateBackupKey: "<prefix>backup-<yyyymmdd-hhmmss>-<filename>".
GenerateBackupKey(prefix, t, filename) ==
    NormalizedPrefix(prefix) \o BackupDash \o FormatTime(t, "-")
        \o << "-" >> \o filename

\* The key the upload at clock value t gives the dump file named at t.
UploadedKey(t) ==
    GenerateBackupKey(ConfigPrefix, t, BackupFileName(t))

\* The keys a listing may hold, in the lexicographic order in which
\* ListObjectsV2 returns keys: the uploaded backups by time stamp, then the
\* foreign object ("pg/b..." sorts before "pg/n...").
KeyList ==
    [i \in 1..MaxTime |-> UploadedKey(i)] \o << ForeignKey >>

----------------------------------------------------------------------------
\* Retention: S3Client.CleanupOldBackups.

\* The match predicate of CleanupOldBackups.
MatchesRetention(key) ==
    HasPrefix(Base(key), BackupDash) /\ HasSuffix(key, DumpSuffix)

\* allBackups as collected from the pages of the listing.
FilterBackups(listing) ==
    SelectSeq(listing, LAMBDA o : MatchesRetention(o.key))

Swap(a, i, j) ==
    [a EXCEPT ![i] = a[j], ![j] = a[i]]

\* if allBackups[i].LastModified.Before(*allBackups[j].LastModified) { swap }
SwapIfOlderMutant(a, i, j) ==
    IF a[j].lastModified < a[i].lastModified THEN Swap(a, i, j) ELSE a

SwapIfOlder(a, i, j) ==
    IF a[i].lastModified < a[j].lastModified THEN Swap(a, i, j) ELSE a

\* The inner loop: for j := i + 1; j < len; j++ (indices from 1 here).
RECURSIVE SortInner(_, _, _)
SortInner(a, i, j) ==
    IF j > Len(a) THEN a ELSE SortInner(SwapIfOlder(a, i, j), i, j + 1)

\* The outer loop: for i := 0; i < len - 1; i++.
RECURSIVE SortOuter(_, _)
SortOuter(a, i) ==
    IF i >= Len(a) THEN a ELSE SortOuter(SortInner(a, i, i + 1), i + 1)

\* allBackups after the sort by modification time, newest first.
SortNewestFirst(a) ==
    SortOuter(a, 1)

ObjectsToDeleteMutant(sorted, n) ==
    SubSeq(sorted, n + 2, Len(sorted))

\* objectsToDelete: for i := retentionCount; i < len(allBackups); i++.
ObjectsToDelete(sorted, n) ==
    SubSeq(sorted, n + 1, Len(sorted))

KeysOf(objs) ==
    [i \in 1..Len(objs) |-> objs[i].key]

Range(s) ==
    { s[i] : i \in 1..Len(s) }

CleanupOldBackupsMutant(n) ==
    \E listOk \in BOOLEAN :
        IF ~listOk
        THEN /\ retResult' = "list_error"
             /\ retListing' = << >>
             /\ retErrCount' = 0
             /\ UNCHANGED << store, delRequests >>
        ELSE LET allBackups == SortNewestFirst(FilterBackups(store))
             IN  /\ retListing' = store
                 /\ IF Len(allBackups) <= n
                    THEN /\ retResult' = "ok"
                         /\ retErrCount' = 0
                         /\ UNCHANGED << store, delRequests >>
                    ELSE LET toDelete == KeysOf(ObjectsToDelete(allBackups, n))
                         IN  IF Len(toDelete) > 0
                             THEN /\ delRequests' = Append(delRequests, toDelete)
                                  /\ \E reqOk \in BOOLEAN :
                                     \E failed \in SUBSET Range(toDelete) :
                                        IF ~reqOk
                                        THEN /\ failed = {}
                                             /\ retResult' = "delete_request_error"
                                             /\ retErrCount' = 0
                                             /\ UNCHANGED store
                                        ELSE /\ store' = SelectSeq(store,
                                                  LAMBDA o : o.key \notin
                                                      (Range(toDelete) \ failed))
                                             /\ retErrCount' = IF failed = {} THEN 0 ELSE 1
                                             /\ retResult' =
                                                  IF Cardinality(failed) > 0
                                                  THEN "delete_errors"
                                                  ELSE "ok"
                             ELSE /\ retResult' = "ok"
                                  /\ retErrCount' = 0
                                  /\ UNCHANGED << store, delRequests >>

\* One call CleanupOldBackups(ctx, n) against the store.  The listing may fail,
\* the delete request may fail as a whole, and the store may report any subset
\* of the requested objects as failed; the others are deleted.
CleanupOldBackups(n) ==
    \E listOk \in BOOLEAN :
        IF ~listOk
        THEN /\ retResult' = "list_error"
             /\ retListing' = << >>
             /\ retErrCount' = 0
             /\ UNCHANGED << store, delRequests >>
        ELSE LET allBackups == SortNewestFirst(FilterBackups(store))
             IN  /\ retListing' = store
                 /\ IF Len(allBackups) <= n
                    THEN /\ retResult' = "ok"
                         /\ retErrCount' = 0
                         /\ UNCHANGED << store, delRequests >>
                    ELSE LET toDelete == KeysOf(ObjectsToDelete(allBackups, n))
                         IN  IF Len(toDelete) > 0
                             THEN /\ delRequests' = Append(delRequests, toDelete)
                                  /\ \E reqOk \in BOOLEAN :
                                     \E failed \in SUBSET Range(toDelete) :
                                        IF ~reqOk
                                        THEN /\ failed = {}
                                             /\ retResult' = "delete_request_error"
                                             /\ retErrCount' = 0
                                             /\ UNCHANGED store
                                        ELSE /\ store' = SelectSeq(store,
                                                  LAMBDA o : o.key \notin
                                                      (Range(toDelete) \ failed))
                                             /\ retErrCount' = Cardinality(failed)
                                             /\ retResult' =
                                                  IF Cardinality(failed) > 0
                                                  THEN "delete_errors"
                                                  ELSE "ok"
                             ELSE /\ retResult' = "ok"
                                  /\ retErrCount' = 0
                                  /\ UNCHANGED << store, delRequests >>

\* Scheduler.runCleanup: the standalone cleanup task.
RunCleanup ==
    /\ retResult = "none"
    /\ CleanupOldBackups(retentionCount)
    /\ UNCHANGED << s3Prefix, retentionCount, backupVars, schedVars, restoreVars >>

----------------------------------------------------------------------------
\* Error texts.  A Go error is modelled by the text Error() returns.

NoError ==
    << >>

\* 'exit code 2'
ExitCode2 ==
    << "e", "x", "i", "t", " ", "c", "o", "d", "e", " ", "2" >>

\* 'exit code 3'
ExitCode3 ==
    << "e", "x", "i", "t", " ", "c", "o", "d", "e", " ", "3" >>

\* 'exit code 4'
ExitCode4 ==
    << "e", "x", "i", "t", " ", "c", "o", "d", "e", " ", "4" >>

\* 'exit code 5'
ExitCode5 ==
    << "e", "x", "i", "t", " ", "c", "o", "d", "e", " ", "5" >>

\* 'cleanup'
CleanupWord ==
    << "c", "l", "e", "a", "n", "u", "p" >>

\* 'SSH connection failed (exit code 2): '
ConnectWrap ==
    << "S", "S", "H", " ", "c", "o", "n", "n", "e", "c", "t", "i", "o", "n", " ", "f", "a", "i", "l", "e", "d", " ", "(", "e", "x", "i", "t", " ", "c", "o", "d", "e", " ", "2", ")", ":", " " >>

\* 'backup creation failed (exit code 3): '
DumpWrap ==
    << "b", "a", "c", "k", "u", "p", " ", "c", "r", "e", "a", "t", "i", "o", "n", " ", "f", "a", "i", "l", "e", "d", " ", "(", "e", "x", "i", "t", " ", "c", "o", "d", "e", " ", "3", ")", ":", " " >>

\* 'failed to verify backup file (exit code 3): '
VerifyWrap ==
    << "f", "a", "i", "l", "e", "d", " ", "t", "o", " ", "v", "e", "r", "i", "f", "y", " ", "b", "a", "c", "k", "u", "p", " ", "f", "i", "l", "e", " ", "(", "e", "x", "i", "t", " ", "c", "o", "d", "e", " ", "3", ")", ":", " " >>

\* 'backup file is empty (exit code 3)'
EmptyDumpError ==
    << "b", "a", "c", "k", "u", "p", " ", "f", "i", "l", "e", " ", "i", "s", " ", "e", "m", "p", "t", "y", " ", "(", "e", "x", "i", "t", " ", "c", "o", "d", "e", " ", "3", ")" >>

\* 'transfer failed: '
TransferWrapMutant ==
    << "t", "r", "a", "n", "s", "f", "e", "r", " ", "f", "a", "i", "l", "e", "d", ":", " " >>

\* 'transfer failed (exit code 4): '
TransferWrap ==
    << "t", "r", "a", "n", "s", "f", "e", "r", " ", "f", "a", "i", "l", "e", "d", " ", "(", "e", "x", "i", "t", " ", "c", "o", "d", "e", " ", "4", ")", ":", " " >>

\* 'S3 upload failed (exit code 5): '
UploadWrap ==
    << "S", "3", " ", "u", "p", "l", "o", "a", "d", " ", "f", "a", "i", "l", "e", "d", " ", "(", "e", "x", "i", "t", " ", "c", "o", "d", "e", " ", "5", ")", ":", " " >>

\* 'retention cleanup failed: '
CleanupWrap ==
    << "r", "e", "t", "e", "n", "t", "i", "o", "n", " ", "c", "l", "e", "a", "n", "u", "p", " ", "f", "a", "i", "l", "e", "d", ":", " " >>

\* 'SSH validation failed: '
SSHValidationWrap ==
    << "S", "S", "H", " ", "v", "a", "l", "i", "d", "a", "t", "i", "o", "n", " ", "f", "a", "i", "l", "e", "d", ":", " " >>

\* 'pg_dump not found on remote server'
PgDumpNotFound ==
    << "p", "g", "_", "d", "u", "m", "p", " ", "n", "o", "t", " ", "f", "o", "u", "n", "d", " ", "o", "n", " ", "r", "e", "m", "o", "t", "e", " ", "s", "e", "r", "v", "e", "r" >>

\* 'temp directory /tmp is not writable'
TempDirNotWritable ==
    << "t", "e", "m", "p", " ", "d", "i", "r", "e", "c", "t", "o", "r", "y", " ", "/", "t", "m", "p", " ", "i", "s", " ", "n", "o", "t", " ", "w", "r", "i", "t", "a", "b", "l", "e" >>

\* 'rsync not found on local machine'
RsyncNotFound ==
    << "r", "s", "y", "n", "c", " ", "n", "o", "t", " ", "f", "o", "u", "n", "d", " ", "o", "n", " ", "l", "o", "c", "a", "l", " ", "m", "a", "c", "h", "i", "n", "e" >>

\* 'S3 bucket validation failed: '
BucketValidationWrap ==
    << "S", "3", " ", "b", "u", "c", "k", "e", "t", " ", "v", "a", "l", "i", "d", "a", "t", "i", "o", "n", " ", "f", "a", "i", "l", "e", "d", ":", " " >>

\* 'failed to create SSH session: '
SessionError ==
    << "f", "a", "i", "l", "e", "d", " ", "t", "o", " ", "c", "r", "e", "a", "t", "e", " ", "S", "S", "H", " ", "s", "e", "s", "s", "i", "o", "n", ":", " " >>

\* 'failed to open file for upload: '
OpenFailed ==
    << "f", "a", "i", "l", "e", "d", " ", "t", "o", " ", "o", "p", "e", "n", " ", "f", "i", "l", "e", " ", "f", "o", "r", " ", "u", "p", "l", "o", "a", "d", ":", " " >>

\* 'S3 upload failed: '
UploadFailed ==
    << "S", "3", " ", "u", "p", "l", "o", "a", "d", " ", "f", "a", "i", "l", "e", "d", ":", " " >>

\* 'failed to verify uploaded object: '
HeadFailed ==
    << "f", "a", "i", "l", "e", "d", " ", "t", "o", " ", "v", "e", "r", "i", "f", "y", " ", "u", "p", "l", "o", "a", "d", "e", "d", " ", "o", "b", "j", "e", "c", "t", ":", " " >>

\* 'uploaded file size mismatch'
SizeMismatch ==
    << "u", "p", "l", "o", "a", "d", "e", "d", " ", "f", "i", "l", "e", " ", "s", "i", "z", "e", " ", "m", "i", "s", "m", "a", "t", "c", "h" >>

\* 'failed to list backups: '
ListFailed ==
    << "f", "a", "i", "l", "e", "d", " ", "t", "o", " ", "l", "i", "s", "t", " ", "b", "a", "c", "k", "u", "p", "s", ":", " " >>

\* 'failed to delete old backups: '
DeleteFailed ==
    << "f", "a", "i", "l", "e", "d", " ", "t", "o", " ", "d", "e", "l", "e", "t", "e", " ", "o", "l", "d", " ", "b", "a", "c", "k", "u", "p", "s", ":", " " >>

\* 'EOF'
DetailEOF ==
    << "E", "O", "F" >>

\* 'Process exited with status 2'
DetailStatus ==
    << "P", "r", "o", "c", "e", "s", "s", " ", "e", "x", "i", "t", "e", "d", " ", "w", "i", "t", "h", " ", "s", "t", "a", "t", "u", "s", " ", "2" >>

\* '\npg_dump output: '
DumpOutputSep ==
    << "\n", "p", "g", "_", "d", "u", "m", "p", " ", "o", "u", "t", "p", "u", "t", ":", " " >>

\* '\nCommand output: '
CommandOutputSep ==
    << "\n", "C", "o", "m", "m", "a", "n", "d", " ", "o", "u", "t", "p", "u", "t", ":", " " >>

\* "cleanup completed with %d errors"
CleanupErrorsText(n) ==
    << "c", "l", "e", "a", "n", "u", "p", " ", "c", "o", "m", "p", "l", "e", "t", "e", "d", " ", "w", "i", "t", "h", " " >>
        \o << Digit(n) >> \o << " ", "e", "r", "r", "o", "r", "s" >>

\* Texts the environment puts into a collaborator's error.
Details ==
    { DetailEOF, DetailStatus }

\* What SSHClient.Connect can return as an error.
ConnectErrors ==
    { head \o d : d \in Details,
                  head \in { \* 'SSH connection failed: '
                             << "S", "S", "H", " ", "c", "o", "n", "n", "e", "c", "t", "i", "o", "n", " ", "f", "a", "i", "l", "e", "d", ":", " " >>,
                             \* 'failed to read SSH key: '
                             << "f", "a", "i", "l", "e", "d", " ", "t", "o", " ", "r", "e", "a", "d", " ", "S", "S", "H", " ", "k", "e", "y", ":", " " >> } }

\* What SSHClient.ExecuteCommand can return as an error on an open session.
CommandErrors ==
    { head \o d : d \in Details,
                  head \in { SessionError,
                             \* 'command failed: '
                             << "c", "o", "m", "m", "a", "n", "d", " ", "f", "a", "i", "l", "e", "d", ":", " " >> } }
        \cup { \* 'command timed out after 2h0m0s'
               << "c", "o", "m", "m", "a", "n", "d", " ", "t", "i", "m", "e", "d", " ", "o", "u", "t", " ", "a", "f", "t", "e", "r", " ", "2", "h", "0", "m", "0", "s" >> }

\* What RsyncClient.DownloadFile can return as an error.
RsyncErrors ==
    { \* 'rsync failed: exit status 23\nstderr: '
      << "r", "s", "y", "n", "c", " ", "f", "a", "i", "l", "e", "d", ":", " ", "e", "x", "i", "t", " ", "s", "t", "a", "t", "u", "s", " ", "2", "3", "\n", "s", "t", "d", "e", "r", "r", ":", " " >> \o d : d \in Details }
        \cup { \* 'rsync timed out after 1h0m0s'
               << "r", "s", "y", "n", "c", " ", "t", "i", "m", "e", "d", " ", "o", "u", "t", " ", "a", "f", "t", "e", "r", " ", "1", "h", "0", "m", "0", "s" >>,
               \* 'downloaded file is empty'
               << "d", "o", "w", "n", "l", "o", "a", "d", "e", "d", " ", "f", "i", "l", "e", " ", "i", "s", " ", "e", "m", "p", "t", "y" >> }

\* The error CleanupOldBackups returned, from its result.
CleanupErrorText(result, count) ==
    CASE result = "list_error" -> ListFailed \o DetailEOF
      [] result = "delete_request_error" -> DeleteFailed \o DetailEOF
      [] result = "delete_errors" -> CleanupErrorsText(count)
      [] OTHER -> NoError

----------------------------------------------------------------------------
\* The listing order of the store.

\* The characters of object keys in ASCII order.
Alphabet ==
    << "-", ".", "/", "0", "1", "2", "3", "4", "5", "6", "7", "8", "9", "_",
       "a", "b", "c", "d", "e", "f", "g", "h", "i", "j", "k", "l", "m", "n",
       "o", "p", "q", "r", "s", "t", "u", "v", "w", "x", "y", "z" >>

CharCode(c) ==
    CHOOSE i \in 1..Len(Alphabet) : Alphabet[i] = c

\* a sorts before b in the byte order of ListObjectsV2.
RECURSIVE LexLess(_, _)
LexLess(a, b) ==
    IF b = << >> THEN FALSE
    ELSE IF a = << >> THEN TRUE
    ELSE IF a[1] = b[1] THEN LexLess(Tail(a), Tail(b))
    ELSE CharCode(a[1]) < CharCode(b[1])

\* PutObject: the object replaces the one of the same key or takes its place
\* in the listing order.
PutObject(listing, obj) ==
    LET others == SelectSeq(listing, LAMBDA o : o.key # obj.key)
        before == SelectSeq(others, LAMBDA o : LexLess(o.key, obj.key))
        after == SelectSeq(others, LAMBDA o : ~LexLess(o.key, obj.key))
    IN  before \o << obj >> \o after

----------------------------------------------------------------------------
\* The SSH client.

\* SSHClient.Close on a client record: an open client is closed and forgotten,
\* a client that is not connected is left alone.
SSHClose(s) ==
    IF s.open THEN [s EXCEPT !.open = FALSE, !.closes = @ + 1] ELSE s

----------------------------------------------------------------------------
\* The notification client.

\* SendBackupSuccess, SendBackupFailure, SendRestoreSuccess and
\* SendRestoreFailure: with notifications disabled nothing is sent and nil is
\* returned, otherwise the result is that of sendNotification.  The results
\* so far, with that of this call.
SendNotification(enabled, results, delivered) ==
    Append(results, IF ~enabled THEN "skipped"
                    ELSE IF delivered THEN "sent"
                    ELSE "failed")

----------------------------------------------------------------------------
\* The CLI backup entry point (main) and BackupManager.Run.

NoExit ==
    -1

\* The five stages of the pipeline, in order.
StageOrder ==
    << "connect", "dump", "transfer", "upload", "cleanup" >>

\* containsMiddle of main.go: for i := 1; i < len(s)-len(substr); i++.
ContainsMiddle(s, substr) ==
    \E i \in 1..(Len(s) - Len(substr) - 1) : SubSeq(s, i + 1, i + Len(substr)) = substr

\* contains of main.go: a suffix, a prefix or a middle match.
MainContains(s, substr) ==
    \/ Len(s) >= Len(substr) /\ SubSeq(s, Len(s) - Len(substr) + 1, Len(s)) = substr
    \/ Len(s) >= Len(substr) /\ SubSeq(s, 1, Len(substr)) = substr
    \/ Len(s) > Len(substr) /\ ContainsMiddle(s, substr)

\* The switch of main on err.Error().
ExitCodeFor(text) ==
    CASE MainContains(text, ExitCode2) -> 2
      [] ~MainContains(text, ExitCode2) /\ MainContains(text, ExitCode3) -> 3
      [] ~MainContains(text, ExitCode2) /\ ~MainContains(text, ExitCode3)
           /\ MainContains(text, ExitCode4) -> 4
      [] ~MainContains(text, ExitCode2) /\ ~MainContains(text, ExitCode3)
           /\ ~MainContains(text, ExitCode4) /\ MainContains(text, ExitCode5) -> 5
      [] ~MainContains(text, ExitCode2) /\ ~MainContains(text, ExitCode3)
           /\ ~MainContains(text, ExitCode4) /\ ~MainContains(text, ExitCode5)
           /\ MainContains(text, CleanupWord) -> 6
      [] OTHER -> 1

\* GetBackupStage: the stage name a failure notification carries, decided
\* from the text of the error with strings.Contains.
GetBackupStage(text) ==
    LET Contains(sub) ==
            \E i \in 0..(Len(text) - Len(sub)) : SubSeq(text, i + 1, i + Len(sub)) = sub
    IN  IF Contains(ExitCode2) \/ Contains(<< "S", "S", "H" >>)
        THEN "SSH Connection"
        ELSE IF \/ Contains(ExitCode3)
                \/ Contains(<< "b", "a", "c", "k", "u", "p", " ",
                                "c", "r", "e", "a", "t", "i", "o", "n" >>)
        THEN "Remote Backup Creation"
        ELSE IF \/ Contains(ExitCode4)
                \/ Contains(<< "t", "r", "a", "n", "s", "f", "e", "r" >>)
        THEN "File Transfer"
        ELSE IF Contains(ExitCode5) \/ Contains(<< "S", "3" >>)
        THEN "S3 Upload"
        ELSE IF Contains(CleanupWord)
        THEN "Cleanup"
        ELSE "Unknown"

\* Where Run goes after a stage that returned nil.
AfterStage(stage) ==
    CASE stage = "connect" -> "dump"
      [] stage = "dump" -> "transfer"
      [] stage = "transfer" -> "stat"
      [] stage = "upload" -> "cleanup"
      [] OTHER -> "notify"

FailStageMutant(stage, err) ==
    /\ stageLog' = Append(stageLog, [stage |-> stage, ok |-> FALSE])
    /\ notifications' = Append(notifications, [kind |-> "failure", err |-> err,
                                               stage |-> GetBackupStage(err)])
    /\ \E delivered \in BOOLEAN :
          notifier' = [notifier EXCEPT !.results =
                          SendNotification(notifier.enabled, @, delivered)]
    /\ runErr' = err
    /\ pc' = AfterStage(stage)

\* A stage failed: Run sends the failure notification, does not look at its
\* result and returns the error; the deferred bm.cleanup() runs next.
FailStage(stage, err) ==
    /\ stageLog' = Append(stageLog, [stage |-> stage, ok |-> FALSE])
    /\ notifications' = Append(notifications, [kind |-> "failure", err |-> err,
                                               stage |-> GetBackupStage(err)])
    /\ \E delivered \in BOOLEAN :
          notifier' = [notifier EXCEPT !.results =
                          SendNotification(notifier.enabled, @, delivered)]
    /\ runErr' = err
    /\ pc' = "deferred"

\* A stage returned nil: Run goes on.
PassStage(stage) ==
    /\ stageLog' = Append(stageLog, [stage |-> stage, ok |-> TRUE])
    /\ pc' = AfterStage(stage)
    /\ UNCHANGED << notifications, notifier, runErr >>

\* main: LoadConfig fails with exit code 1.
LoadConfig ==
    /\ pc = "load"
    /\ \E ok \in BOOLEAN :
          IF ok THEN pc' = "new" /\ UNCHANGED exitCode
          ELSE pc' = "done" /\ exitCode' = 1
    /\ UNCHANGED << schedVars, remoteCmds, notifier, restoreVars, validationLog, cancelled, stagesAtCancel, sshCalls,
                    retVars, dryRun, now, fileStamp, sshOpen, remoteFile, localFile,
                    localRemovals, backupSize, localSize, stageLog, notifications, runErr,
                    cleanupErr >>

\* main: NewBackupManager fails with exit code 1.
NewBackupManager ==
    /\ pc = "new"
    /\ \E ok \in BOOLEAN :
          IF ok THEN pc' = "run" /\ UNCHANGED exitCode
          ELSE pc' = "done" /\ exitCode' = 1
    /\ UNCHANGED << schedVars, remoteCmds, notifier, restoreVars, validationLog, cancelled, stagesAtCancel, sshCalls,
                    retVars, dryRun, now, fileStamp, sshOpen, remoteFile, localFile,
                    localRemovals, backupSize, localSize, stageLog, notifications, runErr,
                    cleanupErr >>

\* Run: the dry-run branch, and the names of the temporary files.
RunEnter ==
    /\ pc = "run"
    /\ IF dryRun
       THEN pc' = "validate" /\ UNCHANGED fileStamp
       ELSE pc' = "connect" /\ fileStamp' = now
    /\ UNCHANGED << schedVars, remoteCmds, notifier, restoreVars, validationLog, cancelled, stagesAtCancel, sshCalls,
                    retVars, dryRun, now, sshOpen, remoteFile, localFile,
                    localRemovals, backupSize, localSize, stageLog, notifications, runErr,
                    cleanupErr, exitCode >>

\* The calls of validateConfiguration, in order.
ValidationOrder ==
    << "connect", "pg_dump", "tempdir", "rsync", "bucket" >>

ValidationCallsMutant(failed) ==
    [i \in 1..Len(ValidationOrder) |->
        [call |-> ValidationOrder[i], ok |-> ValidationOrder[i] # failed]]

\* The calls validateConfiguration makes when the call `failed` fails
\* ("none": when none does): it returns at the first failure.
ValidationCalls(failed) ==
    LET n == IF failed = "none" THEN Len(ValidationOrder)
             ELSE CHOOSE i \in 1..Len(ValidationOrder) : ValidationOrder[i] = failed
    IN  [i \in 1..n |-> [call |-> ValidationOrder[i], ok |-> ValidationOrder[i] # failed]]

\* validateConfiguration: the session connect, the two remote lookups, the
\* local lookup and the bucket head, stopping at the first that fails.
ValidateConfiguration ==
    /\ pc = "validate"
    /\ \E failed \in { "none", "connect", "pg_dump", "tempdir", "rsync", "bucket" } :
       \E inner \in ConnectErrors : \E d \in Details :
          /\ validationLog' = ValidationCalls(failed)
          /\ sshOpen' = validationLog'[1].ok
          /\ sshCalls' = IF validationLog'[1].ok
                         THEN [sshCalls EXCEPT !.opens = @ + 1] ELSE sshCalls
          /\ runErr' = CASE failed = "connect" -> SSHValidationWrap \o inner
                         [] failed = "pg_dump" -> PgDumpNotFound
                         [] failed = "tempdir" -> TempDirNotWritable
                         [] failed = "rsync" -> RsyncNotFound
                         [] failed = "bucket" -> BucketValidationWrap \o d
                         [] OTHER -> NoError
    /\ pc' = "deferred"
    /\ UNCHANGED << schedVars, remoteCmds, notifier, restoreVars, retVars, cancelled, stagesAtCancel, dryRun, now, fileStamp,
                    remoteFile, localFile, localRemovals, backupSize, localSize, stageLog,
                    notifications, cleanupErr, exitCode >>

\* Stage 1, connectSSH.
ConnectSSH ==
    /\ pc = "connect"
    /\ \E ok \in BOOLEAN : \E inner \in ConnectErrors :
          IF ok
          THEN /\ sshOpen' = TRUE
               /\ sshCalls' = [sshCalls EXCEPT !.opens = @ + 1]
               /\ PassStage("connect")
          ELSE /\ UNCHANGED << sshOpen, sshCalls >>
               /\ FailStage("connect", ConnectWrap \o inner)
    /\ UNCHANGED << schedVars, remoteCmds, restoreVars, validationLog, cancelled, stagesAtCancel,
                    retVars, dryRun, now, fileStamp, remoteFile, localFile,
                    localRemovals, backupSize, localSize, cleanupErr, exitCode >>

CreateRemoteBackupMutant ==
    /\ pc = "dump"
    /\ \E dumpOk \in BOOLEAN : \E left \in { "absent", "partial", "empty", "present" } :
       \E statOk \in BOOLEAN : \E inner \in CommandErrors : \E withDump \in BOOLEAN :
       \E withOutput \in BOOLEAN : \E removed \in BOOLEAN :
          /\ left = "partial" => ~dumpOk
          /\ ~dumpOk => left \in { "absent", "partial" }
          /\ left = "absent" => ~statOk
          /\ ~dumpOk => ~statOk
          /\ dumpOk /\ statOk /\ left = "present" => removed
          /\ dumpOk /\ ~statOk => removed /\ ~withDump /\ ~withOutput
          /\ dumpOk /\ statOk => ~withDump /\ ~withOutput
          /\ IF ~dumpOk
             THEN /\ remoteCmds' = remoteCmds \o << [cmd |-> "pg_dump", ok |-> FALSE],
                                                   [cmd |-> "head", ok |-> withDump],
                                                   [cmd |-> "rm", ok |-> removed] >>
                  /\ remoteFile' = IF removed THEN "absent" ELSE left
                  /\ FailStage("dump",
                        DumpWrap \o inner
                          \o (IF withDump THEN DumpOutputSep \o DetailEOF ELSE << >>)
                          \o (IF withOutput THEN CommandOutputSep \o DetailStatus
                              ELSE << >>))
             ELSE IF ~statOk
             THEN /\ remoteCmds' = remoteCmds \o << [cmd |-> "pg_dump", ok |-> TRUE],
                                                   [cmd |-> "stat", ok |-> FALSE] >>
                  /\ remoteFile' = left
                  /\ FailStage("dump", VerifyWrap \o inner)
             ELSE IF left = "partial"
             THEN /\ remoteCmds' = remoteCmds \o << [cmd |-> "pg_dump", ok |-> TRUE],
                                                   [cmd |-> "stat", ok |-> TRUE],
                                                   [cmd |-> "rm", ok |-> removed] >>
                  /\ remoteFile' = IF removed THEN "absent" ELSE left
                  /\ FailStage("dump", EmptyDumpError)
             ELSE /\ remoteCmds' = remoteCmds \o << [cmd |-> "pg_dump", ok |-> TRUE],
                                                   [cmd |-> "stat", ok |-> TRUE] >>
                  /\ remoteFile' = left
                  /\ PassStage("dump")
    /\ UNCHANGED << schedVars, restoreVars, validationLog, cancelled, stagesAtCancel, sshCalls,
                    retVars, dryRun, now, fileStamp, sshOpen,
                    localFile, localRemovals, backupSize, localSize, cleanupErr, exitCode >>

\* Stage 2, createRemoteBackup: the dump command, then the size check.  After
\* a failed dump command the head of the file is read and rm -f is run on the
\* file; rm -f is run on a file of size zero; the results of rm are not
\* looked at.  The stat command fails on a missing file, and on a file that
\* is there when the session fails; a failed stat leaves the file.  A failed
\* dump leaves a partial file or none.
CreateRemoteBackup ==
    /\ pc = "dump"
    /\ \E dumpOk \in BOOLEAN : \E left \in { "absent", "partial", "empty", "present" } :
       \E statOk \in BOOLEAN : \E inner \in CommandErrors : \E withDump \in BOOLEAN :
       \E withOutput \in BOOLEAN : \E removed \in BOOLEAN :
          /\ left = "partial" => ~dumpOk
          /\ ~dumpOk => left \in { "absent", "partial" }
          /\ left = "absent" => ~statOk
          /\ ~dumpOk => ~statOk
          /\ dumpOk /\ statOk /\ left = "present" => removed
          /\ dumpOk /\ ~statOk => removed /\ ~withDump /\ ~withOutput
          /\ dumpOk /\ statOk => ~withDump /\ ~withOutput
          /\ IF ~dumpOk
             THEN /\ remoteCmds' = remoteCmds \o << [cmd |-> "pg_dump", ok |-> FALSE],
                                                   [cmd |-> "head", ok |-> withDump],
                                                   [cmd |-> "rm", ok |-> removed] >>
                  /\ remoteFile' = IF removed THEN "absent" ELSE left
                  /\ FailStage("dump",
                        DumpWrap \o inner
                          \o (IF withDump THEN DumpOutputSep \o DetailEOF ELSE << >>)
                          \o (IF withOutput THEN CommandOutputSep \o DetailStatus
                              ELSE << >>))
             ELSE IF ~statOk
             THEN /\ remoteCmds' = remoteCmds \o << [cmd |-> "pg_dump", ok |-> TRUE],
                                                   [cmd |-> "stat", ok |-> FALSE] >>
                  /\ remoteFile' = left
                  /\ FailStage("dump", VerifyWrap \o inner)
             ELSE IF left = "empty"
             THEN /\ remoteCmds' = remoteCmds \o << [cmd |-> "pg_dump", ok |-> TRUE],
                                                   [cmd |-> "stat", ok |-> TRUE],
                                                   [cmd |-> "rm", ok |-> removed] >>
                  /\ remoteFile' = IF removed THEN "absent" ELSE left
                  /\ FailStage("dump", EmptyDumpError)
             ELSE /\ remoteCmds' = remoteCmds \o << [cmd |-> "pg_dump", ok |-> TRUE],
                                                   [cmd |-> "stat", ok |-> TRUE] >>
                  /\ remoteFile' = left
                  /\ PassStage("dump")
    /\ UNCHANGED << schedVars, restoreVars, validationLog, cancelled, stagesAtCancel, sshCalls,
                    retVars, dryRun, now, fileStamp, sshOpen,
                    localFile, localRemovals, backupSize, localSize, cleanupErr, exitCode >>

\* Stage 3, transferBackup: rsync with --partial, then the removal of the
\* remote file (a failure of which is only logged).  After a failed transfer
\* os.Remove is called on the local file and its result ignored, and the
\* remote file is left alone.
TransferBackup ==
    /\ pc = "transfer"
    /\ \E ok \in BOOLEAN : \E inner \in RsyncErrors : \E removed \in BOOLEAN :
          IF ok
          THEN /\ localFile' = "present"
               /\ \E size \in 1..2 : localSize' = size
               /\ remoteCmds' = Append(remoteCmds, [cmd |-> "rm", ok |-> removed])
               /\ remoteFile' = IF removed THEN "absent" ELSE remoteFile
               /\ UNCHANGED localRemovals
               /\ PassStage("transfer")
          ELSE /\ localFile' = IF removed THEN "absent" ELSE "partial"
               /\ localRemovals' = localRemovals + 1
               /\ UNCHANGED << remoteFile, localSize, remoteCmds >>
               /\ FailStage("transfer", TransferWrap \o inner)
    /\ UNCHANGED << schedVars, restoreVars, validationLog, cancelled, stagesAtCancel, sshCalls,
                    retVars, dryRun, now, fileStamp, sshOpen, backupSize,
                    cleanupErr, exitCode >>

\* Run: os.Stat(localBackupPath) for the size in the notification.
StatLocalFile ==
    /\ pc = "stat"
    /\ \E ok \in BOOLEAN :
          backupSize' = IF ok THEN localSize ELSE backupSize
    /\ pc' = "upload"
    /\ UNCHANGED localSize
    /\ UNCHANGED << schedVars, remoteCmds, notifier, restoreVars, validationLog, cancelled, stagesAtCancel, sshCalls,
                    retVars, dryRun, now, fileStamp, sshOpen, remoteFile, localFile,
                    localRemovals, stageLog, notifications, runErr, cleanupErr,
                    exitCode >>

\* Stage 4, uploadToS3: open, upload, head, size comparison.  The object is in
\* the store once the upload itself succeeded.  The upload is a call with the
\* context of Run and fails under a cancelled context.  The store stamps the
\* object at the clock's value or later, within the bound on the clock.
UploadToS3 ==
    /\ pc = "upload"
    /\ \E outcome \in { "ok", "open_failed", "upload_failed", "head_failed",
                        "size_mismatch" } :
       \E d \in Details : \E t \in now..(IF now < MaxTime THEN MaxTime ELSE now) :
          LET stored == outcome \in { "ok", "head_failed", "size_mismatch" }
              key == GenerateBackupKey(s3Prefix, t, BackupFileName(fileStamp))
          IN  /\ cancelled => outcome \in { "open_failed", "upload_failed" }
              /\ now' = t
              /\ store' = IF stored
                          THEN PutObject(store, [key |-> key, lastModified |-> t])
                          ELSE store
              /\ CASE outcome = "ok" -> PassStage("upload")
                   [] outcome = "open_failed" ->
                        FailStage("upload", UploadWrap \o OpenFailed \o d)
                   [] outcome = "upload_failed" ->
                        FailStage("upload", UploadWrap \o UploadFailed \o d)
                   [] outcome = "head_failed" ->
                        FailStage("upload", UploadWrap \o HeadFailed \o d)
                   [] outcome = "size_mismatch" ->
                        FailStage("upload", UploadWrap \o SizeMismatch)
    /\ UNCHANGED << schedVars, remoteCmds, restoreVars, validationLog, cancelled, stagesAtCancel, sshCalls,
                    s3Prefix, retentionCount, retListing, delRequests, retResult,
                    retErrCount,
                    dryRun, fileStamp, sshOpen, remoteFile, localFile, localRemovals,
                    backupSize, localSize, cleanupErr, exitCode >>

\* Stage 5, performCleanup: the local file removal (a failure is logged) and
\* the retention call, whose error is returned wrapped.  The retention call
\* lists with the context of Run, which fails under a cancelled context.
PerformCleanupBody ==
    /\ \E removed \in BOOLEAN :
          /\ localFile' = IF removed THEN "absent" ELSE localFile
          /\ localRemovals' = localRemovals + 1
          /\ CleanupOldBackups(retentionCount)
          /\ cancelled => retResult' = "list_error"
          /\ cleanupErr' =
                [removeFailed |-> ~removed,
                 err |-> IF retResult' = "ok" THEN NoError
                         ELSE CleanupWrap \o CleanupErrorText(retResult', retErrCount')]

\* Run after the upload: the cleanup stage, whose error is only logged.
RunCleanupStageMutant ==
    /\ pc = "cleanup"
    /\ PerformCleanupBody
    /\ stageLog' = Append(stageLog, [stage |-> "cleanup", ok |-> cleanupErr'.err = NoError])
    /\ IF cleanupErr'.err = NoError
       THEN pc' = "notify" /\ UNCHANGED << notifications, notifier, runErr >>
       ELSE /\ pc' = "deferred"
            /\ runErr' = cleanupErr'.err
            /\ \E delivered \in BOOLEAN :
                  notifier' = [notifier EXCEPT !.results =
                                  SendNotification(notifier.enabled, @, delivered)]
            /\ notifications' =
                  Append(notifications, [kind |-> "failure", err |-> cleanupErr'.err,
                                         stage |-> GetBackupStage(cleanupErr'.err)])
    /\ UNCHANGED << schedVars, remoteCmds, restoreVars, validationLog, cancelled, stagesAtCancel, sshCalls,
                    s3Prefix, retentionCount, dryRun, now, fileStamp, sshOpen, remoteFile,
                    backupSize, localSize, exitCode >>

RunCleanupStage ==
    /\ pc = "cleanup"
    /\ PerformCleanupBody
    /\ stageLog' = Append(stageLog, [stage |-> "cleanup", ok |-> cleanupErr'.err = NoError])
    /\ pc' = "notify"
    /\ UNCHANGED << schedVars, remoteCmds, notifier, restoreVars, validationLog, cancelled, stagesAtCancel, sshCalls,
                    s3Prefix, retentionCount, dryRun, now, fileStamp, sshOpen, remoteFile,
                    backupSize, localSize, notifications, runErr, exitCode >>

SendBackupSuccessMutant ==
    /\ pc = "notify"
    /\ notifications' = Append(notifications, [kind |-> "success", size |-> backupSize])
    /\ \E delivered \in BOOLEAN :
          /\ notifier' = [notifier EXCEPT !.results =
                             SendNotification(notifier.enabled, @, delivered)]
          /\ runErr' = IF notifier'.results[Len(notifier'.results)] = "failed"
                       THEN DetailStatus ELSE NoError
    /\ pc' = "deferred"
    /\ UNCHANGED << schedVars, remoteCmds, restoreVars, validationLog, cancelled, stagesAtCancel, sshCalls,
                    retVars, dryRun, now, fileStamp, sshOpen, remoteFile, localFile,
                    localRemovals, backupSize, localSize, stageLog, cleanupErr, exitCode >>

\* Run: the success notification (its own failure is logged), return nil.
SendBackupSuccess ==
    /\ pc = "notify"
    /\ notifications' = Append(notifications, [kind |-> "success", size |-> backupSize])
    /\ \E delivered \in BOOLEAN :
          notifier' = [notifier EXCEPT !.results =
                          SendNotification(notifier.enabled, @, delivered)]
    /\ runErr' = NoError
    /\ pc' = "deferred"
    /\ UNCHANGED << schedVars, remoteCmds, restoreVars, validationLog, cancelled, stagesAtCancel, sshCalls,
                    retVars, dryRun, now, fileStamp, sshOpen, remoteFile, localFile,
                    localRemovals, backupSize, localSize, stageLog, cleanupErr, exitCode >>

\* defer bm.cleanup(): the session is closed as Run returns.
DeferredCleanup ==
    /\ pc = "deferred"
    /\ LET s == SSHClose([open |-> sshOpen, closes |-> sshCalls.closes])
       IN  /\ sshOpen' = s.open
           /\ sshCalls' = [sshCalls EXCEPT !.closes = s.closes]
    /\ pc' = "returned"
    /\ UNCHANGED << schedVars, remoteCmds, notifier, restoreVars, validationLog, cancelled, stagesAtCancel,
                    retVars, dryRun, now, fileStamp, remoteFile, localFile,
                    localRemovals, backupSize, localSize, stageLog, notifications, runErr,
                    cleanupErr, exitCode >>

\* main after Run: the exit code from the error text.
MainExit ==
    /\ pc = "returned"
    /\ exitCode' = IF runErr = NoError THEN 0 ELSE ExitCodeFor(runErr)
    /\ pc' = "done"
    /\ UNCHANGED << schedVars, remoteCmds, notifier, restoreVars, validationLog, cancelled, stagesAtCancel, sshCalls,
                    retVars, dryRun, now, fileStamp, sshOpen, remoteFile, localFile,
                    localRemovals, backupSize, localSize, stageLog, notifications, runErr,
                    cleanupErr >>

\* The process exit code of the forced shutdown.
ForcedExitCode ==
    130

\* main's signal goroutine: SIGINT or SIGTERM arrives, the context is
\* cancelled.  The goroutine is started after LoadConfig.
Signal ==
    /\ pc \notin { "idle", "load", "done", "killed" }
    /\ ~cancelled
    /\ cancelled' = TRUE
    /\ stagesAtCancel' = Len(stageLog)
    /\ UNCHANGED << schedVars, remoteCmds, notifier, restoreVars, retVars, pc, dryRun, now, fileStamp,
                    sshOpen, remoteFile, localFile, localRemovals, backupSize, localSize,
                    stageLog, notifications, runErr, cleanupErr, exitCode,
                    validationLog, sshCalls >>

\* main's signal goroutine, five seconds after the signal: os.Exit(130)
\* ends the process where it stands; no deferred call runs.
ForcedExit ==
    /\ cancelled
    /\ pc \notin { "done", "killed" }
    /\ pc' = "killed"
    /\ exitCode' = ForcedExitCode
    /\ UNCHANGED << schedVars, remoteCmds, notifier, restoreVars, retVars, dryRun, now, fileStamp,
                    sshOpen, remoteFile, localFile, localRemovals, backupSize, localSize,
                    stageLog, notifications, runErr, cleanupErr, validationLog,
                    cancelled, stagesAtCancel, sshCalls >>

----------------------------------------------------------------------------
\* The scheduler: Start registers the backup, restore and cleanup jobs in
\* this order, each as a gocron job in singleton mode (LimitModeReschedule),
\* and with run_on_start spawns a goroutine that calls the task itself.

JobNames ==
    << "backup", "restore", "cleanup" >>

JobSet ==
    { JobNames[i] : i \in 1..Len(JobNames) }

\* The leading characters of s that are (member) or are not (~member) in set:
\* how far a scan of fmt or time reads.
RECURSIVE SpanLen(_, _, _)
SpanLen(s, set, member) ==
    IF s = << >> \/ (Head(s) \in set) # member THEN 0
    ELSE 1 + SpanLen(Tail(s), set, member)

\* The decimal digits.
DigitChars ==
    { "0", "1", "2", "3", "4", "5", "6", "7", "8", "9" }

\* The value of a string of decimal digits.
RECURSIVE Atoi(_)
Atoi(s) ==
    IF s = << >> THEN 0
    ELSE 10 * Atoi(SubSeq(s, 1, Len(s) - 1)) + (CharCode(s[Len(s)]) - CharCode("0"))

\* A verb of fmt.Sscanf skips the spaces before it; %s then reads up to the
\* next space.  tok is empty at the end of the input.
ScanString(s) ==
    LET s0 == SubSeq(s, SpanLen(s, { " " }, TRUE) + 1, Len(s))
        n == SpanLen(s0, { " " }, FALSE)
    IN  [tok |-> SubSeq(s0, 1, n), rest |-> SubSeq(s0, n + 1, Len(s0))]

\* %d of fmt.Sscanf: an optional sign and decimal digits; what follows the
\* digits is left for the next verb.
ScanInt(s) ==
    LET s0 == SubSeq(s, SpanLen(s, { " " }, TRUE) + 1, Len(s))
        signed == s0 # << >> /\ Head(s0) \in { "+", "-" }
        s1 == IF signed THEN Tail(s0) ELSE s0
        n == SpanLen(s1, DigitChars, TRUE)
        v == Atoi(SubSeq(s1, 1, n))
    IN  [ok |-> n > 0,
         int |-> IF signed /\ Head(s0) = "-" THEN 0 - v ELSE v,
         rest |-> SubSeq(s1, n + 1, Len(s1))]

\* time.Parse("15:04", s): an hour of one or two digits below 24, a colon, a
\* minute of two digits below 60, and nothing after it.
ParseClock(s) ==
    LET h == IF Len(s) >= 2 /\ s[2] \in DigitChars THEN 2 ELSE 1
    IN  /\ Len(s) = h + 3
        /\ \A i \in (1..h) \cup { h + 2, h + 3 } : s[i] \in DigitChars
        /\ s[h + 1] = ":"
        /\ Atoi(SubSeq(s, 1, h)) < 24
        /\ Atoi(SubSeq(s, h + 2, h + 3)) < 60

\* time.ParseDuration on an unsigned string without fractions: number and
\* unit, once or more, the units being those met in the expressions.  The
\* duration in milliseconds, -1 for an error.
RECURSIVE ParseDuration(_)
ParseDuration(s) ==
    IF s = << "0" >> THEN 0
    ELSE IF s = << >> THEN -1
    ELSE LET DurationUnits ==
                 [unit \in { << "h" >>, << "m" >>, << "s" >>, << "m", "s" >> } |->
                     CASE unit = << "h" >> -> 3600000
                       [] unit = << "m" >> -> 60000
                       [] unit = << "s" >> -> 1000
                       [] OTHER -> 1]
             n == SpanLen(s, DigitChars, TRUE)
             s1 == SubSeq(s, n + 1, Len(s))
             u == SpanLen(s1, DigitChars, FALSE)
             unit == SubSeq(s1, 1, u)
             s2 == SubSeq(s1, u + 1, Len(s1))
             more == IF s2 = << >> THEN 0 ELSE ParseDuration(s2)
         IN  IF n = 0 \/ u = 0 \/ unit \notin DOMAIN DurationUnits \/ more < 0
             THEN -1
             ELSE Atoi(SubSeq(s, 1, n)) * DurationUnits[unit] + more

\* parseWeekday: the time.Weekday (Sunday = 0) of the spelling, -1 for the
\* default case.  WeekdayCases are the spellings the switch has a case for.
ParseWeekday(s) ==
    LET WeekdayCases ==
            << { << "S", "u", "n", "d", "a", "y" >>,
                 << "s", "u", "n", "d", "a", "y" >>,
                 << "S", "u", "n" >>,
                 << "s", "u", "n" >> },
               { << "M", "o", "n", "d", "a", "y" >>,
                 << "m", "o", "n", "d", "a", "y" >>,
                 << "M", "o", "n" >>,
                 << "m", "o", "n" >> },
               { << "T", "u", "e", "s", "d", "a", "y" >>,
                 << "t", "u", "e", "s", "d", "a", "y" >>,
                 << "T", "u", "e" >>,
                 << "t", "u", "e" >> },
               { << "W", "e", "d", "n", "e", "s", "d", "a", "y" >>,
                 << "w", "e", "d", "n", "e", "s", "d", "a", "y" >>,
                 << "W", "e", "d" >>,
                 << "w", "e", "d" >> },
               { << "T", "h", "u", "r", "s", "d", "a", "y" >>,
                 << "t", "h", "u", "r", "s", "d", "a", "y" >>,
                 << "T", "h", "u" >>,
                 << "t", "h", "u" >> },
               { << "F", "r", "i", "d", "a", "y" >>,
                 << "f", "r", "i", "d", "a", "y" >>,
                 << "F", "r", "i" >>,
                 << "f", "r", "i" >> },
               { << "S", "a", "t", "u", "r", "d", "a", "y" >>,
                 << "s", "a", "t", "u", "r", "d", "a", "y" >>,
                 << "S", "a", "t" >>,
                 << "s", "a", "t" >> } >>
        
    IN  IF \E d \in 1..Len(WeekdayCases) : s \in WeekdayCases[d]
        THEN (CHOOSE d \in 1..Len(WeekdayCases) : s \in WeekdayCases[d]) - 1
        ELSE -1

\* parseWeeklySchedule: Sscanf(expr, "%s %s"), then parseWeekday.
ParseWeeklySchedule(expr) ==
    LET day == ScanString(expr)
        clock == ScanString(day.rest)
    IN  [ok |-> day.tok # << >> /\ clock.tok # << >> /\ ParseWeekday(day.tok) >= 0,
         weekday |-> ParseWeekday(day.tok),
         timeStr |-> clock.tok]

ParseMonthlyScheduleMutant(expr) ==
    LET day == ScanInt(expr)
        clock == ScanString(day.rest)
    IN  [ok |-> day.ok /\ clock.tok # << >> /\ ~(day.int < 0 \/ day.int > 31),
         day |-> day.int,
         timeStr |-> clock.tok]

\* parseMonthlySchedule: Sscanf(expr, "%d %s"), then the test of the day.
ParseMonthlySchedule(expr) ==
    LET day == ScanInt(expr)
        clock == ScanString(day.rest)
    IN  [ok |-> day.ok /\ clock.tok # << >> /\ ~(day.int < 1 \/ day.int > 31),
         day |-> day.int,
         timeStr |-> clock.tok]

\* createJobDefinition and NewJob: whether the schedule yields a job.  A cron
\* expression is checked by NewJob alone (cronOk), which also refuses an
\* interval of zero.
JobAccepted(c) ==
    CASE c.type = "cron" -> c.cronOk
      [] c.type = "interval" -> ParseDuration(c.expression) > 0
      [] c.type = "daily" -> ParseClock(c.expression)
      [] c.type = "weekly" ->
            /\ ParseWeeklySchedule(c.expression).ok
            /\ ParseClock(ParseWeeklySchedule(c.expression).timeStr)
      [] c.type = "monthly" ->
            /\ ParseMonthlySchedule(c.expression).ok
            /\ ParseClock(ParseMonthlySchedule(c.expression).timeStr)
      [] OTHER -> FALSE

\* A schedule section: whether the job is enabled, its type and expression,
\* what NewJob makes of a cron expression, and run_on_start, with the
\* switch of the feature the job belongs to (restore.enabled; backup and
\* cleanup have none, which is as good as on).  Here every job is a cron
\* job, "0 2 * * *", of a feature that is on.
ScheduleConfigs ==
    { c \in [enabled : BOOLEAN, feature : { TRUE }, type : { "cron" },
             expression : { << "0", " ", "2", " ", "*", " ", "*", " ", "*" >> },
             cronOk : BOOLEAN, runOnStart : BOOLEAN] :
        /\ ~c.enabled => c.cronOk /\ ~c.runOnStart
        /\ ~c.cronOk => ~c.runOnStart }


\* The decimal text of an integer, as a configuration file has it.
RECURSIVE Decimal(_)
Decimal(n) ==
    IF n < 0 THEN << "-" >> \o Decimal(0 - n)
    ELSE IF n < 10 THEN << Alphabet[CharCode("0") + n] >>
    ELSE Decimal(n \div 10) \o << Alphabet[CharCode("0") + (n % 10)] >>

\* The schedules drawn for the job whose definition is examined: monthly
\* expressions of every day -1..MaxDay, weekly expressions of every weekday
\* in six spellings, intervals, daily times, a cron expression NewJob takes
\* or refuses, and a type createJobDefinition has no case for.
ScheduleInputs ==
    LET Clocks == { << "0", "0", ":", "0", "0" >>, << "0", "2", ":", "3", "0" >>,
                    << "2", "4", ":", "0", "0" >> }
        Spellings ==
            UNION { << { << "S", "U", "N", "D", "A", "Y" >>,
                         << "S", "u", "n", "d", "a", "y" >>,
                         << "s", "u", "n", "d", "a", "y" >>,
                         << "S", "U", "N" >>,
                         << "S", "u", "n" >>,
                         << "s", "u", "n" >> },
                       { << "M", "O", "N", "D", "A", "Y" >>,
                         << "M", "o", "n", "d", "a", "y" >>,
                         << "m", "o", "n", "d", "a", "y" >>,
                         << "M", "O", "N" >>,
                         << "M", "o", "n" >>,
                         << "m", "o", "n" >> },
                       { << "T", "U", "E", "S", "D", "A", "Y" >>,
                         << "T", "u", "e", "s", "d", "a", "y" >>,
                         << "t", "u", "e", "s", "d", "a", "y" >>,
                         << "T", "U", "E" >>,
                         << "T", "u", "e" >>,
                         << "t", "u", "e" >> },
                       { << "W", "E", "D", "N", "E", "S", "D", "A", "Y" >>,
                         << "W", "e", "d", "n", "e", "s", "d", "a", "y" >>,
                         << "w", "e", "d", "n", "e", "s", "d", "a", "y" >>,
                         << "W", "E", "D" >>,
                         << "W", "e", "d" >>,
                         << "w", "e", "d" >> },
                       { << "T", "H", "U", "R", "S", "D", "A", "Y" >>,
                         << "T", "h", "u", "r", "s", "d", "a", "y" >>,
                         << "t", "h", "u", "r", "s", "d", "a", "y" >>,
                         << "T", "H", "U" >>,
                         << "T", "h", "u" >>,
                         << "t", "h", "u" >> },
                       { << "F", "R", "I", "D", "A", "Y" >>,
                         << "F", "r", "i", "d", "a", "y" >>,
                         << "f", "r", "i", "d", "a", "y" >>,
                         << "F", "R", "I" >>,
                         << "F", "r", "i" >>,
                         << "f", "r", "i" >> },
                       { << "S", "A", "T", "U", "R", "D", "A", "Y" >>,
                         << "S", "a", "t", "u", "r", "d", "a", "y" >>,
                         << "s", "a", "t", "u", "r", "d", "a", "y" >>,
                         << "S", "A", "T" >>,
                         << "S", "a", "t" >>,
                         << "s", "a", "t" >> } >>[d] : d \in 1..7 }
                \cup { << "F", "u", "n", "d", "a", "y" >> }
        Durations == { << "9", "0", "m" >>, << "6", "h" >>, << "3", "0", "m" >>,
                       << "1", "h", "3", "0", "m" >>, << "0" >>, << "0", "m" >>,
                       << "9", "0" >>, << "m" >>, << >> }
        Of(type, expressions) ==
            { [type |-> type, expression |-> e, cronOk |-> TRUE] : e \in expressions }
    IN  Of("monthly", { Decimal(d) \o << " " >> \o c : d \in -1..MaxDay, c \in Clocks })
        \cup Of("monthly", { << "3", "1" >>, << "x", " ", "0", "0", ":", "0", "0" >> })
        \cup Of("weekly", { w \o << " " >> \o c : w \in Spellings, c \in Clocks })
        \cup Of("interval", Durations)
        \cup Of("daily", Clocks)
        \cup { [type |-> "cron", cronOk |-> ok,
                 expression |-> << "0", " ", "2", " ", "*", " ", "*", " ", "*" >>] :
                 ok \in BOOLEAN }
        \cup Of("hourly", { << "6", "h" >> })

NoTrigger ==
    [job |-> "none", overlapped |-> FALSE, started |-> FALSE]

\* The executions of the job's task in progress.
InProgress(j) ==
    (IF gocronRunning[j] THEN 1 ELSE 0) + (IF onStart[j] = "running" THEN 1 ELSE 0)

\* A manager whose client holds no connection.
NoClient ==
    [held |-> "none", live |-> { }]

\* A task begins: Run of the job's manager is entered and, for the backup and
\* the restore job, dials; Connect stores the new connection in the client
\* of the manager, over whatever the client held.
TaskBegins(j, run, connected) ==
    sshClients' = IF connected
                  THEN [sshClients EXCEPT ![j] = [held |-> run, live |-> @.live \cup { run }]]
                  ELSE sshClients

\* A task returns: the deferred cleanup of Run closes the connection the
\* client of the manager holds, whichever run dialed it.
TaskReturns(j) ==
    sshClients' = [sshClients EXCEPT ![j] =
                      IF @.held = "none" THEN @
                      ELSE [held |-> "none", live |-> @.live \ { @.held }]]

\* The position of Start after the block of the job.
AfterJob(j) ==
    CASE j = "backup" -> "restore"
      [] j = "restore" -> "cleanup"
      [] OTHER -> "count"

SpawnOnStartMutant(j) ==
    onStart' = [onStart EXCEPT ![j] = "sleeping"]

\* scheduleJob: go func() { time.Sleep(2s); task() }() with run_on_start.
SpawnOnStart(j) ==
    onStart' = IF jobCfg[j].runOnStart THEN [onStart EXCEPT ![j] = "sleeping"] ELSE onStart

ScheduleJobMutant(j) ==
    /\ schedPc = j
    /\ IF ~jobCfg[j].enabled
       THEN /\ schedPc' = AfterJob(j)
            /\ UNCHANGED << jobs, onStart >>
       ELSE IF ~JobAccepted(jobCfg[j])
       THEN /\ schedPc' = "failed"
            /\ UNCHANGED << jobs, onStart >>
       ELSE /\ schedPc' = AfterJob(j)
            /\ jobs' = jobs \cup { j }
            /\ SpawnOnStart(j)
    /\ UNCHANGED << retVars, backupVars, restoreVars, jobCfg, gocronRunning, ticks, lastTrigger, lastRun, sshClients >>

\* Start: the block of one job.  A job whose schedule is disabled, or whose
\* feature is switched off, is passed over; a definition that is refused
\* makes Start return the error.
ScheduleJob(j) ==
    /\ schedPc = j
    /\ IF ~(jobCfg[j].feature /\ jobCfg[j].enabled)
       THEN /\ schedPc' = AfterJob(j)
            /\ UNCHANGED << jobs, onStart >>
       ELSE IF ~JobAccepted(jobCfg[j])
       THEN /\ schedPc' = "failed"
            /\ UNCHANGED << jobs, onStart >>
       ELSE /\ schedPc' = AfterJob(j)
            /\ jobs' = jobs \cup { j }
            /\ SpawnOnStart(j)
    /\ UNCHANGED << retVars, backupVars, restoreVars, jobCfg, gocronRunning, ticks, lastTrigger, lastRun, sshClients >>

\* Start: no job registered is an error, otherwise s.scheduler.Start().
StartScheduler ==
    /\ schedPc = "count"
    /\ schedPc' = IF jobs = { } THEN "failed" ELSE "started"
    /\ UNCHANGED << retVars, backupVars, restoreVars, jobCfg, jobs, gocronRunning, onStart, ticks, lastTrigger, lastRun, sshClients >>

\* gocron fires the trigger of a job.  In singleton mode with
\* LimitModeReschedule a job whose run gocron started is still in flight is
\* not run and not queued: it waits for its next occurrence.
Trigger(j) ==
    /\ schedPc = "started"
    /\ j \in jobs
    /\ ticks < MaxTicks
    /\ ticks' = ticks + 1
    /\ IF gocronRunning[j]
       THEN /\ UNCHANGED << gocronRunning, sshClients >>
            /\ lastTrigger' = [job |-> j, overlapped |-> TRUE, started |-> FALSE]
       ELSE /\ gocronRunning' = [gocronRunning EXCEPT ![j] = TRUE]
            /\ lastTrigger' = [job |-> j, overlapped |-> InProgress(j) > 0,
                               started |-> TRUE]
            /\ \E connected \in BOOLEAN :
                  /\ j = "cleanup" => ~connected
                  /\ TaskBegins(j, "gocron", connected)
    /\ UNCHANGED << retVars, backupVars, restoreVars, schedPc, jobCfg, jobs, onStart,
                    lastRun >>

FinishJobRunMutant(j) ==
    /\ gocronRunning[j]
    /\ gocronRunning' = [gocronRunning EXCEPT ![j] = FALSE]
    /\ TaskReturns(j)
    /\ \E err \in BOOLEAN :
          /\ lastRun' = err
          /\ jobs' = IF err THEN jobs \ { j } ELSE jobs
    /\ UNCHANGED << retVars, backupVars, restoreVars, schedPc, jobCfg, onStart, ticks,
                    lastTrigger >>

\* The task of a run gocron started returns nil or an error: afterJobRun
\* logs the next run, afterJobError logs the error, and nothing else is
\* done to the job.
FinishJobRun(j) ==
    /\ gocronRunning[j]
    /\ gocronRunning' = [gocronRunning EXCEPT ![j] = FALSE]
    /\ TaskReturns(j)
    /\ \E err \in BOOLEAN : lastRun' = err
    /\ UNCHANGED << retVars, backupVars, restoreVars, schedPc, jobCfg, jobs, onStart, ticks,
                    lastTrigger >>

\* The run-on-start goroutine wakes and calls task().  Its sleep of two
\* seconds outlasts the rest of Start's registration.  The goroutine is tied
\* neither to the context nor to gocron: it wakes while the scheduler runs,
\* and also after Start has returned, with an error or after Stop, in a
\* process that is still there two seconds after the goroutine was spawned.
OnStartRun(j) ==
    /\ onStart[j] = "sleeping"
    /\ schedPc \in { "started", "stopped", "failed" }
    /\ onStart' = [onStart EXCEPT ![j] = "running"]
    /\ \E connected \in BOOLEAN :
          /\ j = "cleanup" => ~connected
          /\ TaskBegins(j, "onstart", connected)
    /\ UNCHANGED << retVars, backupVars, restoreVars, schedPc, jobCfg, jobs, gocronRunning, ticks, lastTrigger, lastRun >>

\* The task called by the run-on-start goroutine returns.
OnStartDone(j) ==
    /\ onStart[j] = "running"
    /\ onStart' = [onStart EXCEPT ![j] = "done"]
    /\ TaskReturns(j)
    /\ UNCHANGED << retVars, backupVars, restoreVars, schedPc, jobCfg, jobs, gocronRunning, ticks, lastTrigger, lastRun >>

\* Start: the context is cancelled, Stop shuts the scheduler down.
StopScheduler ==
    /\ schedPc = "started"
    /\ schedPc' = "stopped"
    /\ UNCHANGED << retVars, backupVars, restoreVars, jobCfg, jobs, gocronRunning, onStart, ticks, lastTrigger, lastRun, sshClients >>

----------------------------------------------------------------------------
\* RestoreManager.Run and performRestore.

\* The archive format versions pg_restore may name, "unknown" standing for
\* an output the version pattern does not match; and client versions.
V116 ==
    << "1", ".", "1", "6" >>

V115 ==
    << "1", ".", "1", "5" >>

BackupVersions ==
    { V116, V115, << "1", ".", "1", "8" >>, << "2", ".", "0" >>,
      << "u", "n", "k", "n", "o", "w", "n" >> }

\* tryInstallSpecificPostgreSQLVersion: the major version of the client to
\* install, the empty text when it cannot be determined.
MajorVersion(version) ==
    CASE version = V116 -> << "1", "6" >>
      [] version = V115 -> << "1", "5" >>
      [] version = << "1", ".", "1", "4" >> -> << "1", "4" >>
      [] version = << "1", ".", "1", "3" >> -> << "1", "3" >>
      [] OTHER -> IF HasPrefix(version, << "1", "." >>)
                  THEN SubSeq(version, 3, Len(version))
                  ELSE << >>

\* The texts of the errors performRestore returns, up to the wrapped error.
ErrRequires17 ==
    "restore failed - backup requires PostgreSQL 17 or newer (dump format 1.16)"

ErrVersionMismatch ==
    "restore failed due to PostgreSQL version mismatch - backup requires PostgreSQL"

NoCalls ==
    [toolInstall |-> 0, terminate |-> 0, drop |-> 0, revoke |-> 0, create |-> 0,
     restore |-> 0, vmCycle |-> 0, install |-> 0, cmds |-> << >>]

NoRestoreYet ==
    [err |-> FALSE, unsupported |-> FALSE, version |-> << >>, clean |-> FALSE]

RestoreConfigs ==
    [useSSH : BOOLEAN, autoInstall : BOOLEAN, dropExisting : BOOLEAN,
     createDB : BOOLEAN, forceDisconnect : BOOLEAN, notify : { FALSE }]

MayInstallMutant ==
    rcfg.autoInstall

\* rm.sshClient == nil && rm.config.Restore.AutoInstall
MayInstall ==
    ~rcfg.useSSH /\ rcfg.autoInstall

\* The 1.16 branch retries the restore when the client reports version 17.
Retries116(newVersion) ==
    IF newVersion = << "1", "7" >> THEN 1 ELSE 0

\* performRestore returns the error.
RestoreFails(text) ==
    /\ restoreErr' = text
    /\ rpc' = "done"

\* The match predicate of GetLatestBackup and ListBackups:
\* strings.Contains(key, "backup_") && strings.HasSuffix(key, ".dump").
MatchesSelection(key) ==
    /\ \E i \in 0..(Len(key) - Len(BackupUnderscore)) :
          SubSeq(key, i + 1, i + Len(BackupUnderscore)) = BackupUnderscore
    /\ HasSuffix(key, DumpSuffix)

GetLatestBackupMutant(listing) ==
    LET Latest(i) == /\ \A j \in 1..Len(listing) :
                           listing[j].lastModified <= listing[i].lastModified
                     /\ \A h \in 1..(i - 1) :
                           listing[h].lastModified < listing[i].lastModified
    IN  IF listing = << >> THEN << >>
        ELSE listing[CHOOSE i \in 1..Len(listing) : Latest(i)].key

\* S3Client.GetLatestBackup on a listing: the key of the first object, in
\* listing order, whose last-modified time no other matching object exceeds;
\* the empty key when no object matches ("no backups found in S3").
GetLatestBackup(listing) ==
    LET found == SelectSeq(listing, LAMBDA o : MatchesSelection(o.key))
        Latest(i) == /\ \A j \in 1..Len(found) :
                           found[j].lastModified <= found[i].lastModified
                     /\ \A h \in 1..(i - 1) :
                           found[h].lastModified < found[i].lastModified
    IN  IF found = << >> THEN << >>
        ELSE found[CHOOSE i \in 1..Len(found) : Latest(i)].key

ListBackupsMutant(listing) ==
    LET found == SelectSeq(listing, LAMBDA o : MatchesSelection(o.key))
        reversed == [i \in 1..Len(found) |-> found[Len(found) + 1 - i]]
    IN  KeysOf(SortNewestFirst(reversed))

\* S3Client.ListBackups on a listing: the keys of the matching objects after
\* the sort by modification time, newest first, which is the loop of
\* CleanupOldBackups again.
ListBackups(listing) ==
    KeysOf(SortNewestFirst(SelectSeq(listing, LAMBDA o : MatchesSelection(o.key))))

\* The state of one call of RestoreManager.Run for the backup key given
\* (the empty key: the latest backup is to be selected), after its first
\* statement, defer rm.cleanup(): the session, the stages, the downloaded
\* file and its copy on the host, the stack of deferred calls and the calls
\* run at Run's return.
RestoreRun(key) ==
    [open |-> FALSE, opens |-> 0, closes |-> 0, failed |-> "none",
     key |-> key, listed |-> FALSE, chosen |-> << >>, downloads |-> 0,
     stages |-> << >>, notes |-> << >>, sent |-> << >>, remote |-> FALSE,
     bash |-> FALSE, localFile |-> "absent", remoteFile |-> "absent",
     defers |-> << "cleanup" >>, ends |-> << >>]

ExecuteCommandMutant(r) ==
    [r EXCEPT !.remote = TRUE]

\* RestoreManager.executeCommand: the command goes over the SSH session when
\* the manager has an SSH client, and to a local bash otherwise.
ExecuteCommand(r) ==
    IF rcfg.useSSH THEN [r EXCEPT !.remote = TRUE] ELSE [r EXCEPT !.bash = TRUE]

\* RestoreManager.Run up to the download: the enabled check, the selection of
\* the latest backup when no key is given, and the download.  A failure of the
\* selection or the download is notified with its stage; Run returns.
\* DownloadFile creates the local file first: a failed os.Create leaves no
\* file, a failed HeadObject the empty file, a failed Download an empty or
\* partial file, and a download of no bytes the empty file that
\* downloadFromS3 refuses.  The removal of the file is deferred after a
\* download that succeeded.
RestoreFetch ==
    /\ rpc = "run"
    /\ \E enabled \in BOOLEAN : \E listOk \in BOOLEAN : \E delivered \in BOOLEAN :
       \E got \in { "absent", "empty", "partial", "present" } :
          LET downloadOk == got = "present"
              selects == rrun.key = << >>
              latest == GetLatestBackup(store)
              key == IF selects THEN latest ELSE rrun.key
              begun == IF selects THEN << "backup_selection" >> ELSE << >>
          IN  IF ~enabled
              THEN /\ rrun' = [rrun EXCEPT !.failed = "not_enabled"]
                   /\ rpc' = "deferred"
              ELSE IF selects /\ (~listOk \/ latest = << >>)
              THEN /\ rrun' = [rrun EXCEPT !.listed = TRUE, !.stages = begun,
                                           !.failed = "backup_selection",
                                           !.notes = Append(@, "backup_selection"),
                                           !.sent = SendNotification(rcfg.notify, @, delivered)]
                   /\ rpc' = "deferred"
              ELSE IF ~downloadOk
              THEN /\ rrun' = [rrun EXCEPT !.listed = selects, !.chosen = key,
                                           !.stages = begun \o << "download" >>,
                                           !.failed = "download",
                                           !.localFile = got,
                                           !.notes = Append(@, "download"),
                                           !.sent = SendNotification(rcfg.notify, @, delivered)]
                   /\ rpc' = "deferred"
              ELSE /\ rrun' = [rrun EXCEPT !.listed = selects, !.chosen = key,
                                           !.stages = begun \o << "download" >>,
                                           !.downloads = @ + 1,
                                           !.localFile = got,
                                           !.defers = Append(@, "rm_local")]
                   /\ rpc' = IF rcfg.useSSH THEN "connect" ELSE "tool"
    /\ UNCHANGED << retVars, backupVars, schedVars, rcfg, calls, firstRestore,
                    vmInstall, restoreErr >>

\* RestoreManager.Run with an SSH client: connectSSH, then transferToRemote,
\* which ends with a command on the session.  A transfer that fails in rsync
\* leaves nothing or a part of the file on the host, one that fails in the
\* verification an empty file or (the stat command failed) the file.  The
\* removal of the remote file is deferred after a transfer that succeeded.
RestoreConnect ==
    /\ rpc = "connect"
    /\ \E outcome \in { "ssh_connection", "transfer", "ok" } : \E delivered \in BOOLEAN :
       \E left \in { "absent", "empty", "partial", "present" } :
          /\ outcome = "ssh_connection" => left = "absent"
          /\ outcome = "ok" => left = "present"
          /\ rrun' =
                IF outcome = "ssh_connection"
                THEN [rrun EXCEPT !.stages = Append(@, "ssh_connection"),
                                  !.failed = "ssh_connection",
                                  !.notes = Append(@, "ssh_connection"),
                                  !.sent = SendNotification(rcfg.notify, @, delivered)]
                ELSE IF outcome = "transfer"
                THEN [rrun EXCEPT !.open = TRUE, !.opens = @ + 1,
                                  !.stages = @ \o << "ssh_connection", "transfer" >>,
                                  !.failed = "transfer",
                                  !.remoteFile = left,
                                  !.notes = Append(@, "transfer"),
                                  !.sent = SendNotification(rcfg.notify, @, delivered)]
                ELSE [rrun EXCEPT !.open = TRUE, !.opens = @ + 1, !.remote = TRUE,
                                  !.remoteFile = left,
                                  !.defers = Append(@, "rm_remote"),
                                  !.stages = @ \o << "ssh_connection", "transfer" >>]
          /\ rpc' = IF outcome = "ok" THEN "tool" ELSE "deferred"
    /\ UNCHANGED << retVars, backupVars, schedVars, rcfg, calls, firstRestore,
                    vmInstall, restoreErr >>

RestoreFinishMutant ==
    /\ rpc = "done"
    /\ \E delivered \in BOOLEAN :
       rrun' = IF restoreErr = ""
               THEN [rrun EXCEPT !.notes = Append(@, "success"),
                                 !.sent = SendNotification(rcfg.notify, @, delivered)]
               ELSE [rrun EXCEPT !.failed = "restore"]
    /\ rpc' = "deferred"
    /\ UNCHANGED << retVars, backupVars, schedVars, rcfg, calls, firstRestore,
                    vmInstall, restoreErr >>

\* RestoreManager.Run after performRestore: an error is notified with the
\* stage "restore" and returned, otherwise the success is notified.
RestoreFinish ==
    /\ rpc = "done"
    /\ \E delivered \in BOOLEAN :
       rrun' = IF restoreErr = ""
               THEN [rrun EXCEPT !.notes = Append(@, "success"),
                                 !.sent = SendNotification(rcfg.notify, @, delivered)]
               ELSE [rrun EXCEPT !.failed = "restore",
                                 !.notes = Append(@, "restore"),
                                 !.sent = SendNotification(rcfg.notify, @, delivered)]
    /\ rpc' = "deferred"
    /\ UNCHANGED << retVars, backupVars, schedVars, rcfg, calls, firstRestore,
                    vmInstall, restoreErr >>

RECURSIVE RunDeferredMutant(_, _, _)
RunDeferredMutant(r, removedRemote, removedLocal) ==
    IF r.defers = << >> THEN r
    ELSE LET call == Head(r.defers)
             rest == [r EXCEPT !.defers = Tail(@),
                               !.ends = Append(@, [call |-> call, open |-> r.open])]
         IN  RunDeferredMutant(
                 CASE call = "rm_remote" ->
                          [rest EXCEPT !.remoteFile =
                                          IF removedRemote /\ r.open THEN "absent" ELSE @]
                   [] call = "rm_local" ->
                          [rest EXCEPT !.localFile = IF removedLocal THEN "absent" ELSE @]
                   [] call = "cleanup" ->
                          IF rcfg.useSSH THEN SSHClose(rest) ELSE rest,
                 removedRemote, removedLocal)

\* The deferred calls of Run at its return, last in, first out:
\* RemoveRemoteFile (its error is dropped; it needs the open session),
\* os.Remove of the local file (its error is dropped) and rm.cleanup(),
\* which closes the SSH client when there is one.  Each call is recorded with
\* the state of the session it found.
RECURSIVE RunDeferred(_, _, _)
RunDeferred(r, removedRemote, removedLocal) ==
    IF r.defers = << >> THEN r
    ELSE LET call == r.defers[Len(r.defers)]
             rest == [r EXCEPT !.defers = SubSeq(@, 1, Len(@) - 1),
                               !.ends = Append(@, [call |-> call, open |-> r.open])]
         IN  RunDeferred(
                 CASE call = "rm_remote" ->
                          [rest EXCEPT !.remoteFile =
                                          IF removedRemote /\ r.open THEN "absent" ELSE @]
                   [] call = "rm_local" ->
                          [rest EXCEPT !.localFile = IF removedLocal THEN "absent" ELSE @]
                   [] call = "cleanup" ->
                          IF rcfg.useSSH THEN SSHClose(rest) ELSE rest,
                 removedRemote, removedLocal)

\* Run returns: its deferred calls are run.
RestoreDeferred ==
    /\ rpc = "deferred"
    /\ \E removedRemote \in BOOLEAN : \E removedLocal \in BOOLEAN :
          /\ "rm_remote" \notin Range(rrun.defers) => ~removedRemote
          /\ "rm_local" \notin Range(rrun.defers) => ~removedLocal
          /\ rrun' = RunDeferred(rrun, removedRemote, removedLocal)
    /\ rpc' = "returned"
    /\ UNCHANGED << retVars, backupVars, schedVars, rcfg, calls, firstRestore,
                    vmInstall, restoreErr >>

\* The lookup of pg_restore; a missing tool is installed in local mode with
\* auto-install (tryInstallPostgreSQLClient) and looked up again.
FindPgRestore ==
    /\ rpc = "tool"
    /\ \E found \in BOOLEAN : \E installed \in BOOLEAN : \E again \in BOOLEAN :
          IF found
          THEN rpc' = "drop" /\ UNCHANGED << calls, restoreErr >>
          ELSE IF rcfg.useSSH
          THEN RestoreFails("pg_restore not found on remote server") /\ UNCHANGED calls
          ELSE IF ~rcfg.autoInstall
          THEN RestoreFails("pg_restore not found on local system (auto-install disabled)") /\ UNCHANGED calls
          ELSE /\ calls' = [calls EXCEPT !.toolInstall = @ + 1]
               /\ IF ~installed THEN RestoreFails("pg_restore not found on local system and auto-install failed")
                  ELSE IF ~again THEN RestoreFails("pg_restore still not found after installation attempt")
                  ELSE rpc' = "drop" /\ UNCHANGED restoreErr
    /\ rrun' = ExecuteCommand([rrun EXCEPT !.stages = Append(@, "restore")])
    /\ UNCHANGED << retVars, backupVars, schedVars, rcfg, firstRestore, vmInstall >>

DropDatabaseMutant ==
    /\ rpc = "drop"
    /\ IF ~rcfg.dropExisting
       THEN rpc' = "create" /\ UNCHANGED << calls, restoreErr, rrun >>
       ELSE \E termOk \in BOOLEAN : \E outcome \in { "ok", "busy", "refused" } :
            \E revokeOk \in BOOLEAN : \E second \in BOOLEAN :
               LET Cmd(c, ok) == [cmd |-> c, out |-> IF ok THEN "ok" ELSE "failed"]
                   t == IF rcfg.forceDisconnect THEN 1 ELSE 0
                   term == IF rcfg.forceDisconnect
                           THEN << Cmd("terminate", termOk) >> ELSE << >>
                   first == term \o << [cmd |-> "drop", out |-> outcome] >>
               IN  /\ rrun' = ExecuteCommand(rrun)
                   /\ CASE outcome = "ok" ->
                             /\ calls' = [calls EXCEPT !.terminate = @ + t, !.drop = @ + 1,
                                                       !.cmds = @ \o first]
                             /\ rpc' = "create" /\ UNCHANGED restoreErr
                        [] outcome = "busy" ->
                             /\ calls' = [calls EXCEPT
                                   !.terminate = @ + t, !.drop = @ + 2, !.revoke = @ + 1,
                                   !.cmds = @ \o first \o << Cmd("revoke", revokeOk),
                                                             Cmd("drop", second) >>]
                             /\ IF second THEN rpc' = "create" /\ UNCHANGED restoreErr
                                ELSE RestoreFails("failed to drop existing database after terminating connections")
                        [] outcome = "refused" ->
                             /\ calls' = [calls EXCEPT
                                   !.terminate = @ + t, !.drop = @ + 2,
                                   !.cmds = @ \o first \o << Cmd("drop", FALSE) >>]
                             /\ RestoreFails("failed to drop existing database")
    /\ UNCHANGED << retVars, backupVars, schedVars, rcfg, firstRestore, vmInstall >>

\* drop_existing: the connections are terminated with force_disconnect (a
\* failure is only logged), the database is dropped, and a drop refused for
\* active connections is tried once more after the connect privilege is
\* revoked (a failure of the revocation is only logged).
DropDatabase ==
    /\ rpc = "drop"
    /\ IF ~rcfg.dropExisting
       THEN rpc' = "create" /\ UNCHANGED << calls, restoreErr, rrun >>
       ELSE \E termOk \in BOOLEAN : \E outcome \in { "ok", "busy", "refused" } :
            \E revokeOk \in BOOLEAN : \E second \in BOOLEAN :
               LET Cmd(c, ok) == [cmd |-> c, out |-> IF ok THEN "ok" ELSE "failed"]
                   t == IF rcfg.forceDisconnect THEN 1 ELSE 0
                   term == IF rcfg.forceDisconnect
                           THEN << Cmd("terminate", termOk) >> ELSE << >>
                   first == term \o << [cmd |-> "drop", out |-> outcome] >>
               IN  /\ rrun' = ExecuteCommand(rrun)
                   /\ CASE outcome = "ok" ->
                             /\ calls' = [calls EXCEPT !.terminate = @ + t, !.drop = @ + 1,
                                                       !.cmds = @ \o first]
                             /\ rpc' = "create" /\ UNCHANGED restoreErr
                        [] outcome = "busy" ->
                             /\ calls' = [calls EXCEPT
                                   !.terminate = @ + t, !.drop = @ + 2, !.revoke = @ + 1,
                                   !.cmds = @ \o first \o << Cmd("revoke", revokeOk),
                                                             Cmd("drop", second) >>]
                             /\ IF second THEN rpc' = "create" /\ UNCHANGED restoreErr
                                ELSE RestoreFails("failed to drop existing database after terminating connections")
                        [] outcome = "refused" ->
                             /\ calls' = [calls EXCEPT !.terminate = @ + t, !.drop = @ + 1,
                                                       !.cmds = @ \o first]
                             /\ RestoreFails("failed to drop existing database")
    /\ UNCHANGED << retVars, backupVars, schedVars, rcfg, firstRestore, vmInstall >>

\* create_db: an "already exists" failure is passed over.
CreateDatabase ==
    /\ rpc = "create"
    /\ IF ~rcfg.createDB
       THEN rpc' = "restore" /\ UNCHANGED << calls, restoreErr, rrun >>
       ELSE \E outcome \in { "ok", "exists", "refused" } :
               /\ calls' = [calls EXCEPT !.create = @ + 1,
                                         !.cmds = Append(@, [cmd |-> "create", out |-> outcome])]
               /\ rrun' = ExecuteCommand(rrun)
               /\ IF outcome = "refused" THEN RestoreFails("failed to create database")
                  ELSE rpc' = "restore" /\ UNCHANGED restoreErr
    /\ UNCHANGED << retVars, backupVars, schedVars, rcfg, firstRestore, vmInstall >>

\* The first pg_restore invocation, and what performRestore makes of its
\* error: an output naming an unsupported version goes to the recovery of
\* that version, an output with warnings only counts as success.
ExecuteRestore ==
    /\ rpc = "restore"
    /\ rrun' = ExecuteCommand(rrun)
    /\ \E outcome \in { "ok", "unsupported", "warnings", "errors" } :
       \E version \in BackupVersions :
          /\ calls' = [calls EXCEPT !.restore = @ + 1,
                                    !.cmds = Append(@, [cmd |-> "restore", out |-> outcome])]
          /\ firstRestore' =
                [err |-> outcome # "ok",
                 unsupported |-> outcome = "unsupported",
                 version |-> IF outcome = "unsupported" THEN version ELSE << >>,
                 clean |-> ~rcfg.createDB /\ rcfg.dropExisting]
          /\ CASE outcome = "unsupported" ->
                    /\ rpc' = IF version = V116 THEN "format116" ELSE "mismatch"
                    /\ UNCHANGED restoreErr
               [] outcome = "errors" -> RestoreFails("restore failed")
               [] OTHER -> rpc' = "verify" /\ UNCHANGED restoreErr
    /\ UNCHANGED << retVars, backupVars, schedVars, rcfg, vmInstall >>

\* The recovery for format 1.16: the magic bytes are probed with hexdump
\* (its error ignored); in local mode with auto-install the client 17 is
\* installed, from the system repositories or else from the PostgreSQL
\* repository, and the restore is retried when the client reports 17.
RecoverFormat116 ==
    /\ rpc = "format116"
    /\ \E magic \in BOOLEAN : \E direct \in BOOLEAN : \E repo \in BOOLEAN :
       \E newVersion \in { << "1", "7" >>, << "1", "6" >>, << >> } :
       \E retryOk \in BOOLEAN :
          IF ~magic
          THEN RestoreFails("invalid backup file format - not a PostgreSQL custom dump") /\ UNCHANGED << calls, vmInstall >>
          ELSE IF ~MayInstall
          THEN RestoreFails(ErrRequires17) /\ UNCHANGED << calls, vmInstall >>
          ELSE IF ~direct /\ ~repo
          THEN /\ calls' = [calls EXCEPT !.vmCycle = @ + 1, !.install = @ + 2]
               /\ vmInstall' = "failed"
               /\ RestoreFails(ErrRequires17)
          ELSE /\ calls' = [calls EXCEPT !.vmCycle = @ + 1,
                                         !.install = @ + (IF direct THEN 1 ELSE 2),
                                         !.restore = @ + Retries116(newVersion),
                                         !.cmds = IF Retries116(newVersion) > 0
                                                  THEN Append(@, [cmd |-> "restore",
                                                                  out |-> IF retryOk THEN "ok"
                                                                          ELSE "errors"])
                                                  ELSE @]
               /\ vmInstall' = "ok"
               /\ IF Retries116(newVersion) > 0 /\ retryOk
                  THEN rpc' = "verify" /\ UNCHANGED restoreErr
                  ELSE RestoreFails(ErrRequires17)
    /\ rrun' = ExecuteCommand(rrun)
    /\ UNCHANGED << retVars, backupVars, schedVars, rcfg, firstRestore >>

\* tryInstallSpecificPostgreSQLVersion: whether it returned nil and how many
\* install commands it executed.  With apt-get the command that succeeded is
\* executed once more after the switch.
InstallSpecific(version, detected, manager, elevated, direct, repo, final) ==
    IF MajorVersion(version) = << >> \/ ~detected \/ manager = "unknown" \/ ~elevated
    THEN [ok |-> FALSE, installs |-> 0]
    ELSE IF manager = "apt-get" /\ ~direct /\ ~repo
    THEN [ok |-> FALSE, installs |-> 2]
    ELSE [ok |-> final,
          installs |-> IF manager # "apt-get" THEN 1 ELSE IF direct THEN 2 ELSE 3]

\* The recovery for the other versions: in local mode with auto-install the
\* client of the version is installed and the restore retried.
RecoverVersion ==
    /\ rpc = "mismatch"
    /\ \E detected \in BOOLEAN : \E manager \in { "apt-get", "yum", "apk", "unknown" } :
       \E elevated \in BOOLEAN : \E direct \in BOOLEAN : \E repo \in BOOLEAN :
       \E final \in BOOLEAN : \E retryOk \in BOOLEAN :
          LET res == InstallSpecific(firstRestore.version, detected, manager,
                                     elevated, direct, repo, final)
          IN  IF ~MayInstall
              THEN RestoreFails(ErrVersionMismatch) /\ UNCHANGED << calls, vmInstall >>
              ELSE IF ~res.ok
              THEN /\ calls' = [calls EXCEPT !.vmCycle = @ + 1,
                                             !.install = @ + res.installs]
                   /\ vmInstall' = "failed"
                   /\ RestoreFails(ErrVersionMismatch)
              ELSE /\ calls' = [calls EXCEPT !.vmCycle = @ + 1,
                                             !.install = @ + res.installs,
                                             !.restore = @ + 1,
                                             !.cmds = Append(@, [cmd |-> "restore",
                                                                 out |-> IF retryOk THEN "ok"
                                                                         ELSE "errors"])]
                   /\ vmInstall' = "ok"
                   /\ IF retryOk THEN rpc' = "verify" /\ UNCHANGED restoreErr
                      ELSE RestoreFails(ErrVersionMismatch)
    /\ rrun' = ExecuteCommand(rrun)
    /\ UNCHANGED << retVars, backupVars, schedVars, rcfg, firstRestore >>

VerifyRestoreMutant ==
    /\ rpc = "verify"
    /\ \E outcome \in { "ok", "failed" } :
          /\ calls' = [calls EXCEPT !.cmds = Append(@, [cmd |-> "verify", out |-> outcome])]
          /\ restoreErr' = IF outcome = "ok" THEN "" ELSE "verification failed"
    /\ rrun' = ExecuteCommand(rrun)
    /\ rpc' = "done"
    /\ UNCHANGED << retVars, backupVars, schedVars, rcfg, firstRestore, vmInstall >>

\* restore_success: the table count is read, a failure is only logged.
VerifyRestore ==
    /\ rpc = "verify"
    /\ \E outcome \in { "ok", "failed" } :
          calls' = [calls EXCEPT !.cmds = Append(@, [cmd |-> "verify", out |-> outcome])]
    /\ rrun' = ExecuteCommand(rrun)
    /\ rpc' = "done"
    /\ restoreErr' = ""
    /\ UNCHANGED << retVars, backupVars, schedVars, rcfg, firstRestore, vmInstall >>

----------------------------------------------------------------------------
\* Specifications.

\* The elements of a set of integers in ascending order.
RECURSIVE Ascending(_)
Ascending(S) ==
    IF S = {} THEN << >>
    ELSE LET m == CHOOSE x \in S : \A y \in S : x <= y
         IN  << m >> \o Ascending(S \ { m })

\* The listings of at most n objects: any keys of KeyList, in listing order,
\* each with any last-modified time.
Listings(n) ==
    LET Picks == { S \in SUBSET (1..Len(KeyList)) : Cardinality(S) <= n }
    IN  UNION { { [i \in 1..Cardinality(S) |->
                     [key |-> KeyList[Ascending(S)[i]],
                      lastModified |-> tm[Ascending(S)[i]]]] :
                  tm \in [S -> 1..MaxTime] } : S \in Picks }

\* The stores a backup run may find: earlier uploads, each last modified at
\* its time stamp, and possibly the foreign object.
EarlierStores ==
    { s \in Listings(MaxObjects) :
        \A i \in 1..Len(s) :
            \/ s[i].key = ForeignKey
            \/ /\ s[i].lastModified < MaxTime
               /\ s[i].key = UploadedKey(s[i].lastModified) }

RetIdle ==
    /\ retListing = << >>
    /\ delRequests = << >>
    /\ retResult = "none"
    /\ retErrCount = 0

BackupIdle ==
    /\ pc = "idle"
    /\ dryRun = FALSE
    /\ now = 1
    /\ fileStamp = 0
    /\ sshOpen = FALSE
    /\ remoteFile = "absent"
    /\ localFile = "absent"
    /\ localRemovals = 0
    /\ backupSize = 0
    /\ localSize = 0
    /\ remoteCmds = << >>
    /\ stageLog = << >>
    /\ notifications = << >>
    /\ notifier = [enabled |-> FALSE, results |-> << >>]
    /\ runErr = NoError
    /\ cleanupErr = [removeFailed |-> FALSE, err |-> NoError]
    /\ exitCode = NoExit
    /\ validationLog = << >>
    /\ cancelled = FALSE
    /\ stagesAtCancel = 0
    /\ sshCalls = [opens |-> 0, closes |-> 0]

SchedIdle ==
    /\ schedPc = "idle"
    /\ jobCfg = [j \in JobSet |-> CHOOSE c \in ScheduleConfigs : ~c.enabled]
    /\ jobs = { }
    /\ gocronRunning = [j \in JobSet |-> FALSE]
    /\ onStart = [j \in JobSet |-> "none"]
    /\ ticks = 0
    /\ lastTrigger = NoTrigger
    /\ lastRun = FALSE
    /\ sshClients = [j \in JobSet |-> NoClient]

RestoreIdle ==
    /\ rpc = "idle"
    /\ rcfg = [useSSH |-> FALSE, autoInstall |-> FALSE, dropExisting |-> FALSE,
               createDB |-> FALSE, forceDisconnect |-> FALSE, notify |-> FALSE]
    /\ calls = NoCalls
    /\ firstRestore = NoRestoreYet
    /\ vmInstall = "none"
    /\ restoreErr = ""
    /\ rrun = RestoreRun(<< >>)

\* The retention specification: one standalone cleanup call on any listing.
RetInit ==
    /\ store \in Listings(MaxObjects)
    /\ retentionCount \in 0..MaxRetention
    /\ s3Prefix = ConfigPrefix
    /\ RetIdle
    /\ BackupIdle
    /\ SchedIdle
    /\ RestoreIdle

RetNext ==
    RunCleanup

SpecRetention ==
    RetInit /\ [][RetNext]_vars

\* The backup specification: one invocation of the CLI in backup mode.
BackupInit ==
    /\ store \in EarlierStores
    /\ retentionCount \in 1..MaxRetention
    /\ s3Prefix = ConfigPrefix
    /\ RetIdle
    /\ pc = "load"
    /\ dryRun \in BOOLEAN
    /\ now \in 1..MaxTime
    /\ fileStamp = 0
    /\ sshOpen = FALSE
    /\ remoteFile = "absent"
    /\ localFile = "absent"
    /\ localRemovals = 0
    /\ backupSize = 0
    /\ localSize = 0
    /\ remoteCmds = << >>
    /\ stageLog = << >>
    /\ notifications = << >>
    /\ notifier = [enabled |-> FALSE, results |-> << >>]
    /\ runErr = NoError
    /\ cleanupErr = [removeFailed |-> FALSE, err |-> NoError]
    /\ exitCode = NoExit
    /\ validationLog = << >>
    /\ cancelled = FALSE
    /\ stagesAtCancel = 0
    /\ sshCalls = [opens |-> 0, closes |-> 0]
    /\ SchedIdle
    /\ RestoreIdle

BackupNext ==
    \/ LoadConfig
    \/ NewBackupManager
    \/ RunEnter
    \/ ValidateConfiguration
    \/ ConnectSSH
    \/ CreateRemoteBackup
    \/ TransferBackup
    \/ StatLocalFile
    \/ UploadToS3
    \/ RunCleanupStage
    \/ SendBackupSuccess
    \/ DeferredCleanup
    \/ MainExit

SpecBackup ==
    BackupInit /\ [][BackupNext]_vars

\* The shutdown specification: one invocation of the CLI in backup mode,
\* on an empty bucket, with a signal arriving at any point.
SignalInit ==
    /\ BackupInit
    /\ store = << >>
    /\ retentionCount = 1

SignalNext ==
    \/ BackupNext
    \/ Signal
    \/ ForcedExit

SpecSignal ==
    SignalInit /\ [][SignalNext]_vars

\* The scheduler specification: one Start under any schedule configuration.
SchedInit ==
    /\ store = << >>
    /\ retentionCount = 1
    /\ s3Prefix = ConfigPrefix
    /\ RetIdle
    /\ BackupIdle
    /\ schedPc = "backup"
    /\ jobCfg \in [JobSet -> ScheduleConfigs]
    /\ jobs = { }
    /\ gocronRunning = [j \in JobSet |-> FALSE]
    /\ onStart = [j \in JobSet |-> "none"]
    /\ ticks = 0
    /\ lastTrigger = NoTrigger
    /\ lastRun = FALSE
    /\ sshClients = [j \in JobSet |-> NoClient]
    /\ RestoreIdle

SchedNext ==
    \/ \E j \in JobSet : ScheduleJob(j)
    \/ StartScheduler
    \/ \E j \in JobSet : Trigger(j)
    \/ \E j \in JobSet : FinishJobRun(j)
    \/ \E j \in JobSet : OnStartRun(j)
    \/ \E j \in JobSet : OnStartDone(j)
    \/ StopScheduler

SpecSched ==
    SchedInit /\ [][SchedNext]_vars

\* The schedule specification: Start with the backup job alone enabled, on
\* any of the schedules.
ScheduleInit ==
    /\ store = << >>
    /\ retentionCount = 1
    /\ s3Prefix = ConfigPrefix
    /\ RetIdle
    /\ BackupIdle
    /\ RestoreIdle
    /\ schedPc = "backup"
    /\ \E s \in ScheduleInputs : \E r \in BOOLEAN :
          jobCfg = [j \in JobSet |->
                      IF j = "backup"
                      THEN [enabled |-> TRUE, feature |-> TRUE, type |-> s.type,
                            expression |-> s.expression,
                            cronOk |-> s.cronOk, runOnStart |-> r]
                      ELSE CHOOSE c \in ScheduleConfigs : ~c.enabled]
    /\ jobs = { }
    /\ gocronRunning = [j \in JobSet |-> FALSE]
    /\ onStart = [j \in JobSet |-> "none"]
    /\ ticks = 0
    /\ lastTrigger = NoTrigger
    /\ lastRun = FALSE
    /\ sshClients = [j \in JobSet |-> NoClient]

SpecSchedule ==
    ScheduleInit /\ [][SchedNext]_vars

\* The start specification: one Start under any schedule configuration, with
\* the restore feature switched on or off.
StartInit ==
    /\ store = << >>
    /\ retentionCount = 1
    /\ s3Prefix = ConfigPrefix
    /\ RetIdle
    /\ BackupIdle
    /\ RestoreIdle
    /\ schedPc = "backup"
    /\ \E f \in [JobSet -> ScheduleConfigs] : \E restoreEnabled \in BOOLEAN :
          jobCfg = [f EXCEPT !["restore"].feature = restoreEnabled]
    /\ jobs = { }
    /\ gocronRunning = [j \in JobSet |-> FALSE]
    /\ onStart = [j \in JobSet |-> "none"]
    /\ ticks = 0
    /\ lastTrigger = NoTrigger
    /\ lastRun = FALSE
    /\ sshClients = [j \in JobSet |-> NoClient]

SpecStart ==
    StartInit /\ [][SchedNext]_vars

\* The scheduler with its goroutines scheduled: Start goes on through its
\* blocks, a run-on-start goroutine that may wake does wake, and a task that
\* was called returns.
SpecSchedFair ==
    /\ SpecSched
    /\ WF_vars(\E j \in JobSet : ScheduleJob(j))
    /\ WF_vars(StartScheduler)
    /\ \A j \in JobSet : WF_vars(OnStartRun(j)) /\ WF_vars(OnStartDone(j))

\* The restore specification: one performRestore call under any configuration.
RestoreInit ==
    /\ store \in { << >>, << [key |-> UploadedKey(1), lastModified |-> 1] >> }
    /\ retentionCount = 1
    /\ s3Prefix = ConfigPrefix
    /\ RetIdle
    /\ BackupIdle
    /\ SchedIdle
    /\ rpc = "run"
    /\ rcfg \in RestoreConfigs
    /\ calls = NoCalls
    /\ firstRestore = NoRestoreYet
    /\ vmInstall = "none"
    /\ restoreErr = ""
    /\ rrun \in { RestoreRun(k) : k \in { << >>, UploadedKey(2) } }

RestoreNext ==
    \/ RestoreFetch
    \/ RestoreConnect
    \/ RestoreFinish
    \/ RestoreDeferred
    \/ FindPgRestore
    \/ DropDatabase
    \/ CreateDatabase
    \/ ExecuteRestore
    \/ RecoverFormat116
    \/ RecoverVersion
    \/ VerifyRestore

SpecRestore ==
    RestoreInit /\ [][RestoreNext]_vars

\* The pipeline specification: one invocation of the CLI in backup mode on
\* an empty bucket under any of the key prefixes, or one call of
\* RestoreManager.Run, with notifications enabled or disabled.
PipelineInit ==
    /\ retentionCount = 1
    /\ RetIdle
    /\ SchedIdle
    /\ \E backup \in BOOLEAN : \E notify \in BOOLEAN : \E prefix \in Prefixes :
          IF backup
          THEN /\ store = << >>
               /\ s3Prefix = prefix
               /\ pc = "load"
               /\ dryRun \in BOOLEAN
               /\ now = 1
               /\ fileStamp = 0
               /\ sshOpen = FALSE
               /\ remoteFile = "absent"
               /\ remoteCmds = << >>
               /\ localFile = "absent"
               /\ localRemovals = 0
               /\ backupSize = 0
               /\ localSize = 0
               /\ stageLog = << >>
               /\ notifications = << >>
               /\ notifier = [enabled |-> notify, results |-> << >>]
               /\ runErr = NoError
               /\ cleanupErr = [removeFailed |-> FALSE, err |-> NoError]
               /\ exitCode = NoExit
               /\ validationLog = << >>
               /\ cancelled = FALSE
               /\ stagesAtCancel = 0
               /\ sshCalls = [opens |-> 0, closes |-> 0]
               /\ RestoreIdle
          ELSE /\ store \in { << >>, << [key |-> UploadedKey(1), lastModified |-> 1] >> }
               /\ s3Prefix = ConfigPrefix
               /\ BackupIdle
               /\ rpc = "run"
               /\ rcfg \in { [c EXCEPT !.notify = notify] : c \in RestoreConfigs }
               /\ calls = NoCalls
               /\ firstRestore = NoRestoreYet
               /\ vmInstall = "none"
               /\ restoreErr = ""
               /\ rrun \in { RestoreRun(k) : k \in { << >>, UploadedKey(2) } }

SpecPipeline ==
    PipelineInit /\ [][BackupNext \/ RestoreNext]_vars

\* The end-to-end specification: one backup run with retention count 3 on a
\* store that holds MaxEarlier backups, all older than the run, and possibly
\* the foreign object.
ScenarioInit ==
    /\ \E foreign \in BOOLEAN :
          store = [i \in 1..MaxEarlier |->
                      [key |-> UploadedKey(i), lastModified |-> i]]
                  \o (IF foreign
                      THEN << [key |-> ForeignKey, lastModified |-> 1] >>
                      ELSE << >>)
    /\ retentionCount = 3
    /\ s3Prefix = ConfigPrefix
    /\ RetIdle
    /\ pc = "load"
    /\ dryRun \in BOOLEAN
    /\ now = MaxEarlier + 1
    /\ fileStamp = 0
    /\ sshOpen = FALSE
    /\ remoteFile = "absent"
    /\ localFile = "absent"
    /\ localRemovals = 0
    /\ backupSize = 0
    /\ localSize = 0
    /\ remoteCmds = << >>
    /\ stageLog = << >>
    /\ notifications = << >>
    /\ notifier = [enabled |-> FALSE, results |-> << >>]
    /\ runErr = NoError
    /\ cleanupErr = [removeFailed |-> FALSE, err |-> NoError]
    /\ exitCode = NoExit
    /\ validationLog = << >>
    /\ cancelled = FALSE
    /\ stagesAtCancel = 0
    /\ sshCalls = [opens |-> 0, closes |-> 0]
    /\ SchedIdle
    /\ RestoreIdle

SpecScenario ==
    ScenarioInit /\ [][BackupNext]_vars

\* The selection specification: RestoreManager.Run over SSH up to the
\* transfer, with or without a key, on any listing.
SelectInit ==
    /\ store \in Listings(MaxObjects)
    /\ retentionCount = 1
    /\ s3Prefix = ConfigPrefix
    /\ RetIdle
    /\ BackupIdle
    /\ SchedIdle
    /\ rpc = "run"
    /\ rcfg = [useSSH |-> TRUE, autoInstall |-> FALSE, dropExisting |-> FALSE,
               createDB |-> FALSE, forceDisconnect |-> FALSE, notify |-> FALSE]
    /\ calls = NoCalls
    /\ firstRestore = NoRestoreYet
    /\ vmInstall = "none"
    /\ restoreErr = ""
    /\ rrun \in { RestoreRun(k) : k \in { << >>, UploadedKey(2), ForeignKey } }

SelectNext ==
    \/ RestoreFetch
    \/ RestoreConnect
    \/ RestoreDeferred

SpecSelect ==
    SelectInit /\ [][SelectNext]_vars

\* The bucket specification: a standalone cleanup call and a restore run up
\* to the transfer on a bucket that holds, under the prefix, uploads of the
\* program and objects put there by other means: a note, a dump copied under
\* its local file name ("pg/backup_00_01.dump") and a dump named after the
\* upload time alone ("pg/backup-00-01.dump").
BucketInit ==
    /\ store \in
          LET slashed == NormalizedPrefix(ConfigPrefix)
              keys == { UploadedKey(1), UploadedKey(2), ForeignKey,
                        slashed \o BackupFileName(1),
                        slashed \o BackupDash \o FormatTime(1, "-") \o DumpSuffix }
              objects == [key : keys, lastModified : 1..MaxTime]
          IN  UNION { { l \in [1..n -> objects] :
                          \A i \in 1..n : \A j \in 1..n :
                              i < j => LexLess(l[i].key, l[j].key) } : n \in 0..2 }
    /\ retentionCount \in 0..1
    /\ s3Prefix = ConfigPrefix
    /\ RetIdle
    /\ BackupIdle
    /\ SchedIdle
    /\ rpc = "run"
    /\ rcfg = [useSSH |-> TRUE, autoInstall |-> FALSE, dropExisting |-> FALSE,
               createDB |-> FALSE, forceDisconnect |-> FALSE, notify |-> FALSE]
    /\ calls = NoCalls
    /\ firstRestore = NoRestoreYet
    /\ vmInstall = "none"
    /\ restoreErr = ""
    /\ rrun = RestoreRun(<< >>)

SpecBucket ==
    BucketInit /\ [][RunCleanup \/ SelectNext]_vars

----------------------------------------------------------------------------
\* The properties.

\* C1: in a non-dry-run Run the stages start in the order connect, dump,
\* transfer, upload, cleanup, each only after the one before it returned
\* success; once a stage failed Run is on its way out, no later stage is
\* started, and the retention call is made only after four successful stages.
C1_StagesInOrderFailFast ==
    /\ Len(stageLog) <= Len(StageOrder)
    /\ \A i \in 1..Len(stageLog) :
          /\ stageLog[i].stage = StageOrder[i]
          /\ i > 1 => stageLog[i - 1].ok
    /\ (stageLog # << >> /\ ~stageLog[Len(stageLog)].ok /\ Len(stageLog) < 5)
          => pc \in { "deferred", "returned", "done" }
    /\ retResult # "none"
          => Len(stageLog) = 5 /\ \A i \in 1..4 : stageLog[i].ok
    /\ dryRun => stageLog = << >>

\* The transfer failed after connect and dump succeeded, and main has exited.
C1_Witness ==
    /\ pc = "done"
    /\ Len(stageLog) = 3
    /\ stageLog[1].ok /\ stageLog[2].ok /\ ~stageLog[3].ok
    /\ retResult = "none"

\* C2: when Run has returned an error of one of the first four stages, the
\* removal of the local temporary file has been executed or there is no such
\* file.
C2_LocalFileRemovedOnFailure ==
    (pc \in { "returned", "done" } /\ ~dryRun /\ runErr # NoError)
        => (localRemovals > 0 \/ localFile = "absent")

\* C3: for each job, at most one execution of its task is in progress at any
\* instant, the run-on-start execution included.
C3_AtMostOneExecution ==
    \A j \in JobSet : InProgress(j) <= 1

\* C4: a trigger that fires while an execution of the job is in progress
\* starts no execution.
C4_OverlappingTriggerStartsNothing ==
    lastTrigger.overlapped => ~lastTrigger.started

\* C5: for every retention count N and every listing with M matching backup
\* objects, a cleanup call that read the listing requests the deletion of
\* exactly max(0, M - N) objects, each of them a matching object no newer than
\* any matching object it keeps, and issues no delete request when M <= N.
C5_DeletesExactlyTheOldest ==
    retResult \notin { "none", "list_error" } =>
        LET matching == FilterBackups(retListing)
            M == Len(matching)
            N == retentionCount
            requested == IF delRequests = << >> THEN {} ELSE Range(delRequests[1])
            deleted == { i \in 1..M : matching[i].key \in requested }
            kept == (1..M) \ deleted
        IN  /\ M <= N => delRequests = << >>
            /\ M > N =>
                /\ Len(delRequests) = 1
                /\ Len(delRequests[1]) = M - N
                /\ Cardinality(requested) = M - N
                /\ Cardinality(deleted) = M - N
                /\ \A d \in deleted : \A k \in kept :
                      matching[d].lastModified <= matching[k].lastModified

\* A cleanup that kept some and deleted some objects of different ages.
C5_Witness ==
    /\ retResult = "ok"
    /\ retentionCount >= 1
    /\ Len(delRequests) = 1
    /\ Len(delRequests[1]) >= 1
    /\ Len(FilterBackups(retListing)) > Len(delRequests[1])
    /\ \E i, j \in 1..Len(retListing) :
          retListing[i].lastModified # retListing[j].lastModified

\* C6: in one performRestore call the version-mismatch recovery enters an
\* installation cycle at most once and pg_restore is invoked at most twice;
\* the recovery installs only after the first pg_restore invocation failed
\* naming an unsupported version, in local mode, with auto-install enabled.
C6_RecoveryBounded ==
    /\ calls.vmCycle <= 1
    /\ calls.restore <= 2
    /\ (calls.vmCycle > 0 \/ calls.install > 0 \/ vmInstall # "none")
          => /\ firstRestore.err /\ firstRestore.unsupported
             /\ ~rcfg.useSSH
             /\ rcfg.autoInstall
             /\ calls.vmCycle = 1
    /\ calls.restore = 2 => calls.vmCycle = 1

\* The recovery installed a client and the second pg_restore invocation
\* failed as well.
C6_Witness ==
    /\ rpc = "done"
    /\ calls.vmCycle = 1
    /\ calls.install >= 2
    /\ calls.restore = 2
    /\ restoreErr = ErrVersionMismatch

\* C7: when the version-mismatch installation has succeeded (the install
\* helper returned nil; for format 1.16, an install command succeeded),
\* pg_restore is executed once more, exactly once.
C7_RetryExactlyOnce ==
    (rpc \in { "verify", "done" } /\ vmInstall = "ok") => calls.restore = 2

\* C8: when the first pg_restore invocation names an unsupported version and
\* auto-install is disabled, performRestore returns a version-mismatch
\* error, having executed no install command and pg_restore only once.
C8_MismatchWithoutAutoInstall ==
    (rpc = "done" /\ firstRestore.unsupported /\ ~rcfg.autoInstall)
        => /\ restoreErr \in { ErrVersionMismatch, ErrRequires17 }
           /\ calls.install = 0
           /\ calls.vmCycle = 0
           /\ calls.restore = 1

C10_CleanupErrorNotFatal ==
    (Len(stageLog) = 5 /\ pc \in { "deferred", "returned", "done" })
        => /\ runErr = NoError
           /\ Len(notifications) = 1
           /\ notifications[1].kind = "success"
           /\ pc = "done" => exitCode = 0

\* The retention call failed, Run returned nil and main exited with 0.
C10_Witness ==
    /\ pc = "done"
    /\ Len(stageLog) = 5
    /\ ~stageLog[5].ok
    /\ cleanupErr.err # NoError
    /\ exitCode = 0
    /\ notifications = << [kind |-> "success", size |-> backupSize] >>

\* C11: in a dry run no step changes the bucket, the remote or the local dump
\* file, starts a stage, lists or deletes for retention or removes a local
\* file; the calls made are a prefix of the five validation calls in their
\* order, only the last of them may have failed, and Run returns nil exactly
\* when all five were made and succeeded.
C11_DryRunOnlyValidates ==
    [][dryRun =>
          /\ UNCHANGED << store, remoteFile, localFile, localRemovals, stageLog,
                          retListing, delRequests, retResult, notifications >>
          /\ Len(validationLog') <= Len(ValidationOrder)
          /\ \A i \in 1..Len(validationLog') :
                /\ validationLog'[i].call = ValidationOrder[i]
                /\ i < Len(validationLog') => validationLog'[i].ok
          /\ pc' = "returned" =>
                (runErr' = NoError <=>
                    /\ Len(validationLog') = Len(ValidationOrder)
                    /\ \A i \in 1..Len(validationLog') : validationLog'[i].ok)
       ]_vars

C11_Witness ==
    /\ dryRun
    /\ pc = "done"
    /\ Len(validationLog) = 3
    /\ ~validationLog[3].ok
    /\ runErr # NoError
    /\ exitCode = 1


\* C12: a run that has returned has left no session open: for every job, the
\* connection dialed by the run gocron started is open only while that run is
\* in flight, and the connection dialed by the run-on-start run only while
\* that run is in flight.
C12_SessionClosedWhenRunReturned ==
    \A j \in JobSet :
        /\ ~gocronRunning[j] => "gocron" \notin sshClients[j].live
        /\ onStart[j] # "running" => "onstart" \notin sshClients[j].live


\* C13: when the signal arrived after the connect stage had opened the
\* session of the run and the process has ended, that session was closed,
\* exactly once.
C13_SessionClosedOnSignal ==
    (/\ cancelled
     /\ stagesAtCancel >= 1
     /\ stageLog[1].ok
     /\ pc \in { "done", "killed" })
        => (~sshOpen /\ sshCalls.closes = 1)

\* C14: once the context is cancelled only the stage that was due or under
\* way is started; no stage after it.
C14_NoStageAfterCancel ==
    cancelled => Len(stageLog) <= stagesAtCancel + 1


C16_NoExecutionAfterShutdown ==
    [][schedPc = "stopped" =>
          \A j \in JobSet :
              /\ gocronRunning'[j] => gocronRunning[j]
              /\ onStart'[j] = "running" => onStart[j] = "running"
      ]_vars


\* C17: once Start has passed the block of the job, a monthly expression
\* "D HH:MM" with a valid time has registered the job exactly when
\* 1 <= D <= 31 ("31 00:00" has, "32 00:00" and "0 00:00" have not), the
\* interval "90m" has registered it, and a job that was not registered has
\* made Start return the error with no job registered and no run-on-start
\* goroutine spawned.
C17_MonthlyDayRange ==
    LET c == jobCfg["backup"]
        registered == "backup" \in jobs
        ValidClocks == { << "0", "0", ":", "0", "0" >>, << "0", "2", ":", "3", "0" >> }
    IN  schedPc # "backup" =>
          /\ \A d \in -1..MaxDay : \A clock \in ValidClocks :
                (c.type = "monthly" /\ c.expression = Decimal(d) \o << " " >> \o clock)
                    => (registered <=> (1 <= d /\ d <= 31))
          /\ (c.type = "monthly" /\ c.expression = << "3", "1", " ", "0", "0", ":", "0", "0" >>)
                => registered
          /\ (c.type = "monthly" /\ c.expression = << "3", "2", " ", "0", "0", ":", "0", "0" >>)
                => ~registered
          /\ (c.type = "monthly" /\ c.expression = << "0", " ", "0", "0", ":", "0", "0" >>)
                => ~registered
          /\ (c.type = "interval" /\ c.expression = << "9", "0", "m" >>) => registered
          /\ ~registered =>
                /\ schedPc = "failed"
                /\ jobs = { }
                /\ onStart["backup"] = "none"
                /\ ~gocronRunning["backup"]

C17_Witness ==
    /\ jobCfg["backup"].type = "monthly"
    /\ jobCfg["backup"].expression = << "0", " ", "0", "0", ":", "0", "0" >>
    /\ jobCfg["backup"].runOnStart
    /\ schedPc = "failed"
    /\ jobs = { }

\* C18: once Start has passed the block of the job, a weekly expression whose
\* weekday is spelled in full or abbreviated to three letters, in upper case,
\* capitalised or in lower case, with a valid time, has registered the job
\* with that weekday.
C18_WeekdaySpellings ==
    LET c == jobCfg["backup"]
        ValidClocks == { << "0", "0", ":", "0", "0" >>, << "0", "2", ":", "3", "0" >> }
        Spellings ==
            << { << "S", "U", "N", "D", "A", "Y" >>,
                 << "S", "u", "n", "d", "a", "y" >>,
                 << "s", "u", "n", "d", "a", "y" >>,
                 << "S", "U", "N" >>,
                 << "S", "u", "n" >>,
                 << "s", "u", "n" >> },
               { << "M", "O", "N", "D", "A", "Y" >>,
                 << "M", "o", "n", "d", "a", "y" >>,
                 << "m", "o", "n", "d", "a", "y" >>,
                 << "M", "O", "N" >>,
                 << "M", "o", "n" >>,
                 << "m", "o", "n" >> },
               { << "T", "U", "E", "S", "D", "A", "Y" >>,
                 << "T", "u", "e", "s", "d", "a", "y" >>,
                 << "t", "u", "e", "s", "d", "a", "y" >>,
                 << "T", "U", "E" >>,
                 << "T", "u", "e" >>,
                 << "t", "u", "e" >> },
               { << "W", "E", "D", "N", "E", "S", "D", "A", "Y" >>,
                 << "W", "e", "d", "n", "e", "s", "d", "a", "y" >>,
                 << "w", "e", "d", "n", "e", "s", "d", "a", "y" >>,
                 << "W", "E", "D" >>,
                 << "W", "e", "d" >>,
                 << "w", "e", "d" >> },
               { << "T", "H", "U", "R", "S", "D", "A", "Y" >>,
                 << "T", "h", "u", "r", "s", "d", "a", "y" >>,
                 << "t", "h", "u", "r", "s", "d", "a", "y" >>,
                 << "T", "H", "U" >>,
                 << "T", "h", "u" >>,
                 << "t", "h", "u" >> },
               { << "F", "R", "I", "D", "A", "Y" >>,
                 << "F", "r", "i", "d", "a", "y" >>,
                 << "f", "r", "i", "d", "a", "y" >>,
                 << "F", "R", "I" >>,
                 << "F", "r", "i" >>,
                 << "f", "r", "i" >> },
               { << "S", "A", "T", "U", "R", "D", "A", "Y" >>,
                 << "S", "a", "t", "u", "r", "d", "a", "y" >>,
                 << "s", "a", "t", "u", "r", "d", "a", "y" >>,
                 << "S", "A", "T" >>,
                 << "S", "a", "t" >>,
                 << "s", "a", "t" >> } >>
    IN  schedPc # "backup" =>
          \A d \in 1..7 : \A w \in Spellings[d] : \A clock \in ValidClocks :
              (c.type = "weekly" /\ c.expression = w \o << " " >> \o clock)
                  => /\ "backup" \in jobs
                     /\ ParseWeeklySchedule(c.expression).weekday = d - 1


\* C19: of two matching objects last modified at the same time, a cleanup
\* that keeps the one listed later keeps the one listed earlier too.
C19_TiesKeepListingOrder ==
    (retResult \notin { "none", "list_error" } /\ delRequests # << >>) =>
        LET matching == FilterBackups(retListing)
            requested == Range(delRequests[1])
        IN  \A i, j \in 1..Len(matching) :
                (/\ i < j
                 /\ matching[i].lastModified = matching[j].lastModified
                 /\ matching[j].key \notin requested)
                    => matching[i].key \notin requested

\* C20: after a delete request the store answered, the count of the error is
\* the number of requested objects still in the store, the call succeeds
\* exactly when that number is zero, every other requested object is gone
\* from the store, and no object that was not requested is.
C20_DeleteErrorCount ==
    (retResult \in { "ok", "delete_errors" } /\ delRequests # << >>) =>
        LET requested == Range(delRequests[1])
            stored == { store[i].key : i \in 1..Len(store) }
            listed == { retListing[i].key : i \in 1..Len(retListing) }
            failed == requested \cap stored
        IN  /\ retErrCount = Cardinality(failed)
            /\ retResult = "ok" <=> failed = { }
            /\ stored = (listed \ requested) \cup failed

\* Of three requested objects one was deleted and two were not.
C20_Witness ==
    /\ retResult = "delete_errors"
    /\ retErrCount = 2
    /\ Len(delRequests) = 1
    /\ Len(delRequests[1]) = 3
    /\ Len(store) = 2




\* C26: A failure notification of the backup run carries the name of the
\* stage that actually failed, for every error the stage can return, the
\* wrapped errors of its collaborators included.
C26_FailureNamesFailedStage ==
    \A i \in 1..Len(notifications) :
        notifications[i].kind = "failure" =>
            /\ stageLog # << >>
            /\ ~stageLog[Len(stageLog)].ok
            /\ notifications[i].stage =
                  CASE stageLog[Len(stageLog)].stage = "connect" -> "SSH Connection"
                    [] stageLog[Len(stageLog)].stage = "dump" -> "Remote Backup Creation"
                    [] stageLog[Len(stageLog)].stage = "transfer" -> "File Transfer"
                    [] stageLog[Len(stageLog)].stage = "upload" -> "S3 Upload"
                    [] OTHER -> "Cleanup"

C22_LatestBackupSelected ==
    LET Named(k) == /\ \E i \in 0..(Len(k) - Len(BackupUnderscore)) :
                          SubSeq(k, i + 1, i + Len(BackupUnderscore)) = BackupUnderscore
                    /\ HasSuffix(k, DumpSuffix)
        cand == { i \in 1..Len(store) : Named(store[i].key) }
        downloading == Len(rrun.stages) > 0 /\ "download" \in Range(rrun.stages)
    IN  /\ rrun.key # << >> =>
              /\ ~rrun.listed
              /\ "backup_selection" \notin Range(rrun.stages)
              /\ downloading => rrun.chosen = rrun.key
        /\ rrun.key = << >> /\ rpc \notin { "run" } /\ rrun.failed # "not_enabled" =>
              IF cand = {}
              THEN /\ rrun.failed = "backup_selection"
                   /\ ~downloading /\ rrun.downloads = 0 /\ rrun.chosen = << >>
              ELSE \/ rrun.failed = "backup_selection" /\ ~downloading
                   \/ /\ downloading
                      /\ \E i \in cand :
                            /\ store[i].key = rrun.chosen
                            /\ \A j \in cand :
                                  store[j].lastModified <= store[i].lastModified

\* The latest of two backups was downloaded although it is listed first and
\* an object that is no backup is newer than both.
C22_Witness ==
    /\ rrun.key = << >> /\ rrun.downloads = 1
    /\ Len(store) = 3
    /\ store[1].lastModified = 2 /\ store[2].lastModified = 1
    /\ store[3].key = ForeignKey /\ store[3].lastModified = 3
    /\ rrun.chosen = store[1].key

\* C23: In local restore mode no remote session is ever created: no SSH
\* connect, no transfer, no command over a session, during the whole run.
C23_LocalModeNoSession ==
    ~rcfg.useSSH =>
        /\ rrun.opens = 0 /\ ~rrun.open /\ rrun.closes = 0
        /\ ~rrun.remote
        /\ "ssh_connection" \notin Range(rrun.stages)
        /\ "transfer" \notin Range(rrun.stages)

\* A local run that dropped, created and restored the database with local
\* commands has returned.
C23_Witness ==
    /\ ~rcfg.useSSH /\ rpc = "returned" /\ restoreErr = ""
    /\ rrun.bash /\ calls.drop > 0 /\ calls.create > 0 /\ calls.restore > 0

\* C24: When a stage of the restore run fails, exactly one failure
\* notification is sent, tagged with the name of that stage, and no later
\* stage is started; an error of performRestore is the failure of the stage
\* "restore".
C24_FailureNotifiedWithStage ==
    /\ rrun.failed \in { "backup_selection", "download", "ssh_connection",
                         "transfer", "restore" } =>
          /\ rrun.notes = << rrun.failed >>
          /\ rrun.stages # << >>
          /\ rrun.stages[Len(rrun.stages)] = rrun.failed
    /\ rpc \in { "deferred", "returned" } /\ restoreErr # "" => rrun.failed = "restore"
    /\ rpc = "returned" /\ rrun.failed = "none" => rrun.notes = << "success" >>

\* A run that passed four stages and failed in performRestore has returned.
C24_Witness ==
    /\ rpc = "returned" /\ rrun.failed = "restore" /\ restoreErr # ""
    /\ rrun.stages = << "backup_selection", "download", "ssh_connection",
                        "transfer", "restore" >>

\* C25: pg_restore is given --clean --if-exists only when an existing target
\* database is reused: never when this run created the database, and never
\* when this run dropped it.
C25_CleanOnlyWhenReused ==
    calls.restore > 0 /\ firstRestore.clean =>
        /\ calls.create = 0
        /\ ~\E i \in 1..Len(calls.cmds) :
               calls.cmds[i].cmd = "drop" /\ calls.cmds[i].out = "ok"

\* C29: With dropExisting the drop is executed at most twice; a second drop
\* happens only after a first one refused for active connections, with
\* exactly one revocation between the two; a failure of the second drop, or
\* any other failure of the first, fails the restore with no further drop.
C29_DropAtMostTwice ==
    LET dr == SelectSeq(calls.cmds, LAMBDA c : c.cmd \in { "drop", "revoke" })
    IN  /\ ~rcfg.dropExisting => dr = << >>
        /\ Len(dr) \in { 0, 1, 3 }
        /\ calls.drop = Cardinality({ i \in 1..Len(dr) : dr[i].cmd = "drop" })
        /\ calls.drop <= 2
        /\ Len(dr) = 1 => dr[1].cmd = "drop" /\ dr[1].out \in { "ok", "refused" }
        /\ Len(dr) = 3 => /\ dr[1] = [cmd |-> "drop", out |-> "busy"]
                          /\ dr[2].cmd = "revoke"
                          /\ dr[3].cmd = "drop"
        /\ Len(dr) > 0 /\ dr[Len(dr)].out \in { "refused", "failed" } =>
              /\ rpc \in { "done", "deferred", "returned" }
              /\ restoreErr # ""
              /\ calls.create = 0 /\ calls.restore = 0

\* The first drop was refused for active connections, the revocation failed
\* and the second drop failed: the restore has failed after two drops.
C29_Witness ==
    /\ calls.drop = 2 /\ calls.revoke = 1
    /\ \E i \in 1..Len(calls.cmds) : calls.cmds[i] = [cmd |-> "revoke", out |-> "failed"]
    /\ calls.cmds[Len(calls.cmds)] = [cmd |-> "drop", out |-> "failed"]
    /\ rpc = "returned" /\ rrun.failed = "restore"

\* C30: A failure of the terminate-connections command and a failure of the
\* verification query leave the outcome unchanged: performRestore returns
\* success whenever the restore tool step, or its one retry, succeeded.
C30_TerminateAndVerifyNotFatal ==
    rpc \in { "done", "deferred", "returned" }
        /\ (\E i \in 1..Len(calls.cmds) : calls.cmds[i] = [cmd |-> "restore", out |-> "ok"])
        => restoreErr = ""

\* The termination and the verification both failed, the restore tool
\* succeeded, and performRestore returned success.
C30_Witness ==
    /\ rpc = "returned" /\ restoreErr = "" /\ rrun.failed = "none"
    /\ calls.cmds[1] = [cmd |-> "terminate", out |-> "failed"]
    /\ calls.cmds[Len(calls.cmds)] = [cmd |-> "verify", out |-> "failed"]
    /\ \E i \in 1..Len(calls.cmds) : calls.cmds[i] = [cmd |-> "restore", out |-> "ok"]

\* C27 as stated: each job goes Defined -> Scheduled -> (Running ->
\* Scheduled)* -> Stopped and makes no other move, and a run that ends, with
\* an error or without, puts the job back to Scheduled with the job table
\* and the schedule untouched, its next trigger starting an execution.  The
\* state of a job is that of its gocron job: Defined until scheduleJob has
\* registered it, Stopped once Stop has been called, Running while a run
\* gocron started is in flight, Scheduled otherwise.
C27_LifecycleAsStated ==
    [][\A j \in JobSet :
         LET State(js, at, running) ==
                 IF j \notin js THEN "Defined"
                 ELSE IF at = "stopped" THEN "Stopped"
                 ELSE IF running[j] THEN "Running"
                 ELSE "Scheduled"
             from == State(jobs, schedPc, gocronRunning)
             to == State(jobs', schedPc', gocronRunning')
         IN  /\ from # to =>
                   << from, to >> \in { << "Defined", "Scheduled" >>,
                                        << "Scheduled", "Running" >>,
                                        << "Running", "Scheduled" >>,
                                        << "Scheduled", "Stopped" >> }
             /\ gocronRunning[j] /\ ~gocronRunning'[j] =>
                   /\ jobs' = jobs /\ jobCfg' = jobCfg /\ schedPc' = schedPc
                   /\ to = "Scheduled"
             /\ from = "Scheduled" /\ schedPc = "started" /\ ticks < MaxTicks =>
                   ENABLED Trigger(j)
             /\ ticks' = ticks + 1 /\ lastTrigger'.job = j /\ from = "Scheduled" =>
                   to = "Running"]_vars

\* C27: the lifecycle of a job is Defined -> Scheduled -> (Running ->
\* Scheduled)* -> Stopped, where Stopped is entered from Scheduled or, when
\* Stop is called while a run is in flight, from Running.  A run that ends
\* while the scheduler is started, with an error or without, puts the job
\* back to Scheduled; a run that ends at any time leaves the job table, the
\* schedule and the position of Start as they were, and the next trigger of
\* a Scheduled job starts an execution whatever the last run returned.
C27_Lifecycle ==
    [][\A j \in JobSet :
         LET State(js, at, running) ==
                 IF j \notin js THEN "Defined"
                 ELSE IF at = "stopped" THEN "Stopped"
                 ELSE IF running[j] THEN "Running"
                 ELSE "Scheduled"
             from == State(jobs, schedPc, gocronRunning)
             to == State(jobs', schedPc', gocronRunning')
         IN  /\ from # to =>
                   << from, to >> \in { << "Defined", "Scheduled" >>,
                                        << "Scheduled", "Running" >>,
                                        << "Running", "Scheduled" >>,
                                        << "Scheduled", "Stopped" >>,
                                        << "Running", "Stopped" >> }
             /\ gocronRunning[j] /\ ~gocronRunning'[j] =>
                   /\ jobs' = jobs /\ jobCfg' = jobCfg /\ schedPc' = schedPc
                   /\ to = (IF schedPc = "stopped" THEN "Stopped" ELSE "Scheduled")
             /\ from = "Scheduled" /\ schedPc = "started" /\ ticks < MaxTicks =>
                   ENABLED Trigger(j)
             /\ ticks' = ticks + 1 /\ lastTrigger'.job = j /\ from = "Scheduled" =>
                   to = "Running"]_vars

\* A run of the backup job, the only job, has returned an error, and the
\* next trigger of the job has started its second run.
C27_Witness ==
    /\ jobs = { "backup" } /\ schedPc = "started"
    /\ lastRun /\ ticks = 2
    /\ lastTrigger = [job |-> "backup", overlapped |-> FALSE, started |-> TRUE]
    /\ gocronRunning["backup"]

\* C28 as stated: once Start has passed the blocks of the three jobs, the
\* job table holds the jobs whose schedule is enabled and no other, and
\* with no schedule enabled the scheduler is never started.
C28_JobTableAsStated ==
    /\ schedPc \in { "count", "started", "stopped" } =>
          jobs = { j \in JobSet : jobCfg[j].enabled }
    /\ (\A j \in JobSet : ~jobCfg[j].enabled) =>
          schedPc \notin { "started", "stopped" } /\ jobs = { }

\* C28: once Start has passed the blocks of the three jobs, the job table
\* holds the jobs whose schedule is enabled and, for restore, whose feature
\* is switched on too, and no other; when there is no such job Start fails
\* and the scheduler is never started.
C28_JobTable ==
    LET wanted == { j \in JobSet : jobCfg[j].enabled /\ jobCfg[j].feature }
    IN  /\ schedPc \in { "count", "started", "stopped" } => jobs = wanted
        /\ wanted = { } =>
              /\ schedPc \notin { "started", "stopped" } /\ jobs = { }
              /\ \A j \in JobSet : ~gocronRunning[j] /\ onStart[j] = "none"

\* The restore schedule is the only one enabled and the restore feature is
\* off: Start has failed with no job registered.
C28_Witness ==
    /\ schedPc = "failed" /\ jobs = { }
    /\ jobCfg["restore"].enabled /\ jobCfg["restore"].cronOk
    /\ ~jobCfg["restore"].feature
    /\ ~jobCfg["backup"].enabled /\ ~jobCfg["cleanup"].enabled

\* C31: the dump stage passes only when the dump command succeeded and the
\* remote file is there with a size other than zero; with the file missing
\* or of size zero the stage fails with an error of exit code 3 although the
\* dump command succeeded; after a failed dump command the stage fails with
\* that exit code and rm -f has been run on the file, which is gone when rm
\* succeeded.
C31_DumpVerified ==
    [][pc = "dump" =>
         LET new == SubSeq(remoteCmds', Len(remoteCmds) + 1, Len(remoteCmds'))
             dumpOk == new[1] = [cmd |-> "pg_dump", ok |-> TRUE]
             passed == pc' = "transfer"
             creationError ==
                 /\ pc' = "deferred"
                 /\ \E i \in 0..(Len(runErr') - Len(ExitCode3)) :
                       SubSeq(runErr', i + 1, i + Len(ExitCode3)) = ExitCode3
                 /\ stageLog' = Append(stageLog, [stage |-> "dump", ok |-> FALSE])
         IN  /\ new # << >> /\ new[1].cmd = "pg_dump"
             /\ passed \/ creationError
             /\ passed => dumpOk /\ remoteFile' = "present"
             /\ dumpOk /\ remoteFile' \in { "absent", "empty" } => creationError
             /\ ~dumpOk =>
                   /\ creationError
                   /\ new[Len(new)].cmd = "rm"
                   /\ new[Len(new)].ok => remoteFile' = "absent"]_vars

\* The dump command succeeded and left a file of size zero: the stage has
\* failed with "backup file is empty (exit code 3)".
C31_Witness ==
    /\ pc = "deferred" /\ runErr = EmptyDumpError
    /\ remoteCmds = << [cmd |-> "pg_dump", ok |-> TRUE], [cmd |-> "stat", ok |-> TRUE],
                       [cmd |-> "rm", ok |-> TRUE] >>
    /\ remoteFile = "absent"
    /\ stageLog[Len(stageLog)] = [stage |-> "dump", ok |-> FALSE]

\* C32: a backup run that is no dry run, and a restore run that passed its
\* enabled check, attempts one notification and no more: when it has
\* returned there is exactly one, a failure notification if and only if it
\* returned an error and a success notification if and only if it returned
\* nil; what it returned is decided by its stages alone, whatever became of
\* the notification.
C32_OneOutcomeNotification ==
    /\ ~dryRun => Len(notifications) <= 1 /\ Len(notifier.results) = Len(notifications)
    /\ Len(rrun.notes) <= 1 /\ Len(rrun.sent) = Len(rrun.notes)
    /\ pc = "returned" /\ ~dryRun =>
          LET failedStages == { i \in 1..Len(stageLog) :
                                  ~stageLog[i].ok /\ stageLog[i].stage # "cleanup" }
          IN  /\ Len(notifications) = 1
              /\ notifications[1].kind \in { "success", "failure" }
              /\ notifications[1].kind = "failure" <=> runErr # NoError
              /\ notifications[1].kind = "success" <=> runErr = NoError
              /\ runErr = NoError <=> failedStages = { }
              /\ runErr # NoError => runErr = notifications[1].err
    /\ rpc = "returned" /\ rrun.failed # "not_enabled" =>
          /\ Len(rrun.notes) = 1
          /\ rrun.notes[1] = "success" <=> rrun.failed = "none"
          /\ rrun.notes[1] # "success" => rrun.notes[1] = rrun.failed
          /\ rrun.failed = "none" <=>
                restoreErr = "" /\ rrun.stages[Len(rrun.stages)] = "restore"

\* A backup run with notifications enabled has returned nil, and its success
\* notification could not be delivered.
C32_Witness ==
    /\ pc = "returned" /\ ~dryRun /\ runErr = NoError
    /\ notifier = [enabled |-> TRUE, results |-> << "failed" >>]
    /\ Len(notifications) = 1 /\ notifications[1].kind = "success"

\* C33: under every key prefix (none, with and without a trailing slash,
\* nested) the key the upload stage gives the dump file of a backup run,
\* "<prefix>backup-<time>-backup_<time>.dump", is accepted by the match
\* predicate of the retention and by that of the latest-backup selection:
\* the retention counts every uploaded backup and the selection finds one.
C33_UploadedKeysMatch ==
    pc # "idle" =>
        /\ \A i \in 1..Len(store) :
              /\ \E t \in 1..MaxTime :
                    store[i].key = NormalizedPrefix(s3Prefix) \o BackupDash
                                     \o FormatTime(t, "-") \o << "-" >> \o BackupUnderscore
                                     \o FormatTime(fileStamp, "_") \o DumpSuffix
              /\ MatchesRetention(store[i].key)
              /\ MatchesSelection(store[i].key)
        /\ FilterBackups(store) = store
        /\ store # << >> => GetLatestBackup(store) = store[1].key

\* A backup run under the empty prefix has uploaded its dump and returned.
C33_Witness ==
    /\ pc = "returned" /\ runErr = NoError /\ s3Prefix = << >>
    /\ Len(store) = 1 /\ retListing = store
    /\ store[1].key = BackupDash \o FormatTime(store[1].lastModified, "-") \o << "-" >>
                        \o BackupFileName(fileStamp)

\* C34: when Start has returned an error of the registration, no task of any
\* job is executed: no run started by gocron and no run-on-start execution
\* is in progress or has taken place.
C34_NoTaskAfterFailedStart ==
    schedPc = "failed" =>
        \A j \in JobSet : ~gocronRunning[j] /\ onStart[j] \in { "none", "sleeping" }

\* C35: when a backup run that is no dry run has returned, on whatever path,
\* and its dump command was started, a removal of the remote file has been
\* issued, and the session, closed by now, was open when it was.
C35_RemoteFileRemovalIssued ==
    pc = "returned" /\ ~dryRun =>
        /\ ~sshOpen
        /\ (\E i \in 1..Len(remoteCmds) : remoteCmds[i].cmd = "pg_dump")
               => \E i \in 1..Len(remoteCmds) : remoteCmds[i].cmd = "rm"

\* C36: an upload stage that fails, with an upload error, a head-object error
\* or a size mismatch, leaves the store as it was: no object of the run is
\* there for the retention to count or for GetLatestBackup to return.
C36_FailedUploadStoresNothing ==
    [][pc = "upload" /\ stageLog' = Append(stageLog, [stage |-> "upload", ok |-> FALSE])
          => /\ FilterBackups(store') = FilterBackups(store)
             /\ GetLatestBackup(store') = GetLatestBackup(store)
             /\ store' = store]_vars

\* C37: when RestoreManager.Run has returned, on whatever path, no temporary
\* file of the run is left without its removal having been run: the
\* downloaded local file, also after a download that failed part-way, and
\* with an SSH client the copy on the host, also after a transfer or a
\* verification that failed.
C37_RestoreArtefactsRemoved ==
    rpc = "returned" =>
        LET Ran(call) == \E i \in 1..Len(rrun.ends) : rrun.ends[i].call = call
        IN  /\ rrun.localFile # "absent" => Ran("rm_local")
            /\ rcfg.useSSH /\ rrun.remoteFile # "absent" => Ran("rm_remote")

\* C38: a restore run over SSH whose transfer succeeded ends, after a restore
\* that succeeded as after one that failed, with the removal of the remote
\* archive, then the removal of the local file, then the close of the
\* session: the session is open when the remote removal is issued and closed
\* when Run has returned.
C38_EndOfRunOrder ==
    (/\ rpc = "returned" /\ rcfg.useSSH
     /\ "transfer" \in Range(rrun.stages)
     /\ rrun.failed \notin { "ssh_connection", "transfer" })
        => /\ [i \in 1..Len(rrun.ends) |-> rrun.ends[i].call]
                  = << "rm_remote", "rm_local", "cleanup" >>
           /\ rrun.ends[1].open /\ rrun.ends[2].open /\ rrun.ends[3].open
           /\ ~rrun.open /\ rrun.closes = 1
           /\ rrun.defers = << >>

\* A restore over SSH failed in performRestore after the transfer: the three
\* end-of-run steps have run in that order.
C38_Witness ==
    /\ rpc = "returned" /\ rcfg.useSSH /\ rrun.failed = "restore"
    /\ Len(rrun.ends) = 3 /\ rrun.ends[1] = [call |-> "rm_remote", open |-> TRUE]
    /\ rrun.ends[3].call = "cleanup"
    /\ rrun.remoteFile = "absent" /\ ~rrun.open

\* C39: on every listing GetLatestBackup returns the first key of
\* ListBackups, also when several objects share the greatest modification
\* time, and finds no backup exactly when ListBackups returns none; the key
\* a restore run selected is that first key.
C39_LatestIsFirstListed ==
    LET listed == ListBackups(store)
    IN  /\ listed = << >> <=> GetLatestBackup(store) = << >>
        /\ listed # << >> => GetLatestBackup(store) = listed[1]
        /\ rrun.listed /\ rrun.chosen # << >> => rrun.chosen = listed[1]

\* A restore run selected its backup on a listing in which two backups share
\* the greatest modification time.
C39_Witness ==
    /\ rrun.listed /\ rrun.chosen # << >>
    /\ rrun.chosen = ListBackups(store)[1]
    /\ \E i, j \in 1..Len(store) :
          /\ i < j
          /\ MatchesSelection(store[i].key) /\ MatchesSelection(store[j].key)
          /\ store[i].lastModified = store[j].lastModified
          /\ \A k \in 1..Len(store) : store[k].lastModified <= store[i].lastModified

\* C40: the selection predicate of GetLatestBackup and ListBackups and the
\* retention predicate of CleanupOldBackups accept the same keys: every
\* object of the bucket is accepted by both or by neither, the key a restore
\* run selects is one the retention counts, and every key the retention asks
\* to delete is one the selection could choose.
C40_SameEligibleObjects ==
    /\ \A i \in 1..Len(store) :
          MatchesSelection(store[i].key) <=> MatchesRetention(store[i].key)
    /\ rrun.listed /\ rrun.chosen # << >> => MatchesRetention(rrun.chosen)
    /\ \A r \in 1..Len(delRequests) : \A k \in 1..Len(delRequests[r]) :
          MatchesSelection(delRequests[r][k])

============================================================================
